---- MODULE Spec2Model ----
(***************************************************************************)
(* Value-set document store of the ValueSet repository.                    *)
(*                                                                         *)
(* Two implementations of the same operations act on one MongoDB           *)
(* collection: ValueSetService over ValueSetRepository                     *)
(* (src/services, src/repositories) and the standalone ValueSetLibrary     *)
(* (src/value_set_lib.py).  The collection is a sequence of documents in   *)
(* insertion order; find_one and find_one_and_update act on the first      *)
(* document that matches the filter.  No unique index is declared on       *)
(* "key" anywhere in the source.                                           *)
(*                                                                         *)
(* Item codes are letters standing for the code strings, and               *)
(* ItemLimit stands for the literal 500 of the source, scaled down.        *)
(***************************************************************************)
EXTENDS Integers, Sequences, FiniteSets, TLC

VARIABLES store, response, procs

vars == <<store, response, procs>>

---------------------------------------------------------------------------
(* Bounds *)

ItemLimit == 2
MaxBatch == 2
MaxDocs == 2
\* stands for the 1000 value sets one page may ask for
LimitMax == 2

---------------------------------------------------------------------------
(* Values *)

NULL == "null"
Now == "now"
Keys == {"k1", "k2"}
Creators == {"alice"}
Updaters == {"bob"}
CodeNames == <<"A", "B", "C", "D", "E", "F">>
Codes == {CodeNames[i] : i \in 1..(ItemLimit + 1)}
Statuses == {"active", "archived"}
DefaultLabels == [en |-> "a", hi |-> NULL]

MkItem(code, labels) == [code |-> code, labels |-> labels]

Range(seq) == {seq[i] : i \in 1..Len(seq)}

CodesOf(items) == [i \in 1..Len(items) |-> items[i].code]

\* len(codes) != len(set(codes)) is the source's duplicate test
HasDuplicates(codes) == Len(codes) # Cardinality(Range(codes))

\* a python dict is a function; dict.get(field)
Get(dict, field) == IF field \in DOMAIN dict THEN dict[field] ELSE NULL

\* a dict entry that is only there when the value is not None
Opt(field, value) == IF value = NULL THEN <<>> ELSE field :> value

Result(s, outcome) == [store |-> s, outcome |-> outcome]

---------------------------------------------------------------------------
(* The collection: motor/pymongo primitives *)

CountDocuments(s, key) == Cardinality({i \in 1..Len(s) : s[i].key = key})

First(S) == IF S = {} THEN 0 ELSE CHOOSE i \in S : \A j \in S : i <= j

\* find_one({"key": key}): index of the first match, 0 when there is none
FindOne(s, key) == First({i \in 1..Len(s) : s[i].key = key})

\* find_one({"key": key, "items.code": code})
FindOneWithItem(s, key, code) ==
    First({i \in 1..Len(s) :
            s[i].key = key /\ code \in Range(CodesOf(s[i].items))})

\* the array element the positional operator $ addresses
FirstPos(items, code) == First({j \in 1..Len(items) : items[j].code = code})

\* insert_one assigns a fresh _id
InsertOne(s, doc) == Append(s, [doc EXCEPT !.id = Len(s) + 1])

RECURSIVE InsertMany(_, _)
\* insert_many(documents, ordered=False) with no unique index: all are stored
InsertMany(s, documents) ==
    IF documents = <<>> THEN s
    ELSE InsertMany(InsertOne(s, Head(documents)), Tail(documents))

\* {"$set": fields} on one document
SetFields(doc, fields) ==
    [f \in DOMAIN doc |-> IF f \in DOMAIN fields THEN fields[f] ELSE doc[f]]

\* {"$addToSet": ...} by code: only the items whose code is not stored
PushItems_absent(doc, items) ==
    [doc EXCEPT !.items =
        @ \o SelectSeq(items, LAMBDA it :
                \A j \in 1..Len(doc.items) : doc.items[j].code # it.code)]

\* {"$push": {"items": {"$each": items}}}
PushItems(doc, items) == [doc EXCEPT !.items = @ \o items]

\* {"$pull": {"items": {"code": code}}} removes every element with the code
PullItems(doc, code) ==
    [doc EXCEPT !.items = SelectSeq(@, LAMBDA it : it.code # code)]

\* find_one_and_update with the filter left out: the first document of the
\* collection is overwritten
FindOneAndUpdate_unfiltered(s, key, updated) ==
    IF FindOne(s, key) = 0 THEN s
    ELSE [s EXCEPT ![1] = updated]

\* find_one_and_update({"key": key}, update): updated is the first match
\* with the update applied
FindOneAndUpdate(s, key, updated) ==
    IF FindOne(s, key) = 0 THEN s
    ELSE [s EXCEPT ![FindOne(s, key)] = updated]

---------------------------------------------------------------------------
(* Schemas (pydantic validation of the service's inputs) *)

ValueSetCreateSchema(in) ==
    /\ Len(in.items) >= 1
    /\ Len(in.items) <= ItemLimit
    /\ ~HasDuplicates(CodesOf(in.items))

\* en is a required str of at most 200 characters: the empty string passes
LabelSchema(labels) ==
    /\ "en" \in DOMAIN labels
    /\ labels.en # NULL

\* BulkValueSetCreateSchema: the keys of a bulk request are distinct
BulkValueSetCreateSchema(valueSets) ==
    /\ Len(valueSets) >= 1
    /\ \A i, j \in 1..Len(valueSets) :
          valueSets[i].key = valueSets[j].key => i = j

\* skip >= 0 and 1 <= limit <= 1000
ListValueSetsQuerySchema(query_params) ==
    /\ query_params.skip >= 0
    /\ query_params.limit >= 1
    /\ query_params.limit <= LimitMax

\* 1..500 items, unique codes and a non-empty English label on every item
ValidateValueSetRequestSchema(request) ==
    /\ Len(request.items) >= 1
    /\ Len(request.items) <= ItemLimit
    /\ ~HasDuplicates(CodesOf(request.items))
    /\ \A i \in 1..Len(request.items) :
            Get(request.items[i].labels, "en") \notin {NULL, ""}

\* items = None and items = [] take the same branches in the handlers;
\* a non-empty list has 1..500 items with unique codes
ValueSetUpdateSchema(update_data) ==
    /\ Len(update_data.items) <= ItemLimit
    /\ ~HasDuplicates(CodesOf(update_data.items))

\* no two updates of a bulk request address the same (valueSetKey, itemCode)
BulkItemUpdateSchema(itemUpdates) ==
    /\ Len(itemUpdates) >= 1
    /\ \A i, j \in 1..Len(itemUpdates) :
          (/\ itemUpdates[i].valueSetKey = itemUpdates[j].valueSetKey
           /\ itemUpdates[i].itemCode = itemUpdates[j].itemCode) => i = j

---------------------------------------------------------------------------
(* ValueSetRepository *)

Repository_check_key_exists(s, key) == CountDocuments(s, key) > 0

Repository_create(s, value_set_data) == InsertOne(s, value_set_data)

\* index of the document found, 0 for None
Repository_find_by_key(s, key) == FindOne(s, key)

\* the items of the document found; the callers test FindOne for None
Repository_get_items_by_key(s, key) ==
    IF FindOne(s, key) = 0 THEN <<>> ELSE s[FindOne(s, key)].items

\* an update that also stamps the creation time
Repository_update_by_key_stamping(s, key, update_data) ==
    LET Upd(doc) == SetFields(doc, update_data @@ [createdAt |-> Now]) IN
    FindOneAndUpdate(s, key, Upd(s[FindOne(s, key)]))

Repository_update_by_key(s, key, update_data) ==
    LET Upd(doc) == SetFields(doc, update_data) IN
    FindOneAndUpdate(s, key, Upd(s[FindOne(s, key)]))

\* add_item putting the new item in front of the stored ones
Repository_add_item_front(s, key, new_item, update_fields) ==
    LET Upd(doc) ==
            SetFields([doc EXCEPT !.items = <<new_item>> \o @], update_fields)
    IN  FindOneAndUpdate(s, key, Upd(s[FindOne(s, key)]))

Repository_add_item(s, key, new_item, update_fields) ==
    LET Upd(doc) == SetFields(PushItems(doc, <<new_item>>), update_fields) IN
    FindOneAndUpdate(s, key, Upd(s[FindOne(s, key)]))

\* items.$.<field> = value for every field of item_updates
Repository_update_item(s, key, item_code, item_updates, update_fields) ==
    LET idx == FindOneWithItem(s, key, item_code)
        pos == FirstPos(s[idx].items, item_code)
        Upd(doc) ==
            SetFields([doc EXCEPT !.items[pos] = SetFields(@, item_updates)],
                      update_fields)
    IN  IF idx = 0 THEN s ELSE [s EXCEPT ![idx] = Upd(@)]

RECURSIVE Repository_bulk_add_items(_, _)
\* one UpdateOne per operation; returns the store and modified_count
Repository_bulk_add_items(s, operations) ==
    IF operations = <<>> THEN [store |-> s, modified |-> 0]
    ELSE LET op == Head(operations)
             Upd(doc) == SetFields(PushItems(doc, op.items), op.update_fields)
             rest == Repository_bulk_add_items(
                        FindOneAndUpdate(s, op.key, Upd(s[FindOne(s, op.key)])),
                        Tail(operations))
         IN  [store |-> rest.store,
              modified |-> rest.modified
                            + (IF FindOne(s, op.key) = 0 THEN 0 ELSE 1)]

RECURSIVE Repository_bulk_update_items(_, _)
\* update_item per operation, counting the operations that matched nothing
Repository_bulk_update_items(s, operations) ==
    IF operations = <<>> THEN [store |-> s, successful |-> 0, failed |-> 0]
    ELSE LET op == Head(operations)
             found == FindOneWithItem(s, op.key, op.item_code) # 0
             rest == Repository_bulk_update_items(
                        Repository_update_item(s, op.key, op.item_code,
                                               op.updates, op.update_fields),
                        Tail(operations))
         IN  [store |-> rest.store,
              successful |-> rest.successful + (IF found THEN 1 ELSE 0),
              failed |-> rest.failed + (IF found THEN 0 ELSE 1)]

RECURSIVE Repository_bulk_update(_, _)
\* one UpdateOne {"$set": op.updates} per operation; every update carries a
\* fresh updatedAt, so every matched document counts as modified
Repository_bulk_update(s, operations) ==
    IF operations = <<>> THEN [store |-> s, modified |-> 0]
    ELSE LET op == Head(operations)
             rest == Repository_bulk_update(
                        Repository_update_by_key(s, op.key, op.updates),
                        Tail(operations))
         IN  [store |-> rest.store,
              modified |-> rest.modified
                            + (IF FindOne(s, op.key) = 0 THEN 0 ELSE 1)]

\* pull the old item, then push the new one: two updates
Repository_replace_item_value(s, key, old_code, new_item, update_fields) ==
    LET Pull(doc) == PullItems(doc, old_code)
        Push(doc) == SetFields(PushItems(doc, <<new_item>>), update_fields)
        pulled == FindOneAndUpdate(s, key, Pull(s[FindOne(s, key)]))
    IN  FindOneAndUpdate(pulled, key, Push(pulled[FindOne(pulled, key)]))

Repository_archive(s, key, update_fields) ==
    Repository_update_by_key(s, key, ("status" :> "archived") @@ update_fields)

\* restore writing the update fields and leaving the status
Repository_restore_audit_only(s, key, update_fields) ==
    Repository_update_by_key(s, key, update_fields)

Repository_restore(s, key, update_fields) ==
    Repository_update_by_key(s, key, ("status" :> "active") @@ update_fields)

\* every field of the filter equals the field of the document
Matches(doc, filter_query) ==
    \A f \in DOMAIN filter_query : doc[f] = filter_query[f]

\* sort([("createdAt", DESCENDING)]): documents created now come before the
\* ones created at "t0"
SortByCreatedAt(documents) ==
    SelectSeq(documents, LAMBDA doc : doc.createdAt = Now)
        \o SelectSeq(documents, LAMBDA doc : doc.createdAt # Now)

\* a list that reports the length of the page as the total
Repository_list_value_sets_page_total(s, filter_query, skip, limit) ==
    LET sorted == SortByCreatedAt(
                    SelectSeq(s, LAMBDA doc : Matches(doc, filter_query)))
        last == IF skip + limit < Len(sorted) THEN skip + limit ELSE Len(sorted)
    IN  [documents |-> SubSeq(sorted, skip + 1, last),
         total |-> Len(SubSeq(sorted, skip + 1, last))]

\* count_documents(filter), then find(filter).sort().skip(skip).limit(limit)
Repository_list_value_sets(s, filter_query, skip, limit) ==
    LET total == Cardinality({i \in 1..Len(s) : Matches(s[i], filter_query)})
        sorted == SortByCreatedAt(
                    SelectSeq(s, LAMBDA doc : Matches(doc, filter_query)))
        last == IF skip + limit < Len(sorted) THEN skip + limit ELSE Len(sorted)
    IN  [documents |-> SubSeq(sorted, skip + 1, last), total |-> total]

RECURSIVE SumItems(_)
\* {"$sum": {"$size": "$items"}} over the documents
SumItems(s) == IF s = <<>> THEN 0 ELSE Len(Head(s).items) + SumItems(Tail(s))

\* {"$max": {"$size": "$items"}} and {"$min": ...} over a non-empty collection
MaxItems(s) ==
    CHOOSE n \in {Len(s[i].items) : i \in 1..Len(s)} :
        \A i \in 1..Len(s) : Len(s[i].items) <= n

MinItems(s) ==
    CHOOSE n \in {Len(s[i].items) : i \in 1..Len(s)} :
        \A i \in 1..Len(s) : Len(s[i].items) >= n

\* {"$group": {"_id": "$<field>", "count": {"$sum": 1}}} read into a dict
GroupCount(s, field) ==
    [v \in {s[i][field] : i \in 1..Len(s)} |->
        Cardinality({i \in 1..Len(s) : s[i][field] = v})]

\* the $facet pipeline: every facet of an empty collection is an empty list;
\* the average is kept as the pair <<sum, count>>
Repository_get_statistics(s) ==
    LET total == IF s = <<>> THEN <<>> ELSE <<[count |-> Len(s)]>>
        items_stats ==
            IF s = <<>> THEN <<>>
            ELSE <<[id |-> NULL,
                    total_items |-> SumItems(s),
                    avg_items |-> <<SumItems(s), Len(s)>>,
                    max_items |-> MaxItems(s),
                    min_items |-> MinItems(s)]>>
    IN  [total_value_sets |-> IF total # <<>> THEN total[1].count ELSE 0,
         by_status |-> GroupCount(s, "status"),
         by_module |-> GroupCount(s, "module"),
         items_statistics |-> IF items_stats # <<>> THEN items_stats[1]
                              ELSE <<>>]

\* the document found with _id popped; <<>> for None
Repository_export_value_set(s, key) ==
    IF Repository_find_by_key(s, key) = 0 THEN <<>>
    ELSE LET document == s[Repository_find_by_key(s, key)]
         IN  [f \in DOMAIN document \ {"id"} |-> document[f]]

\* pops _id and inserts the dict as it is
Repository_import_value_set(s, value_set_data) ==
    Repository_create(s, value_set_data)

---------------------------------------------------------------------------
(* ValueSetService *)

\* update fields that also set the status back to active
AuditFields_reactivating(updatedBy) ==
    [updatedAt |-> Now, updatedBy |-> updatedBy, status |-> "active"]

AuditFields(updatedBy) == [updatedAt |-> Now, updatedBy |-> updatedBy]

\* the document create_value_set prepares; _id is set by the insert
NewDocument(in) ==
    [id |-> 0,
     key |-> in.key,
     status |-> in.status,
     module |-> in.module,
     description |-> in.description,
     items |-> in.items,
     createdAt |-> IF in.createdAt = NULL THEN Now ELSE in.createdAt,
     createdBy |-> in.createdBy,
     updatedAt |-> NULL,
     updatedBy |-> NULL]

\* create_value_set without the check of check_key_exists
Service_create_checks_nokey(exists, create_data) ==
    IF HasDuplicates(CodesOf(create_data.items)) THEN "DuplicateItemCode"
    ELSE IF ~(1 <= Len(create_data.items) /\ Len(create_data.items) <= ItemLimit)
    THEN "InvalidItemCount"
    ELSE "ok"

\* the checks of create_value_set, given what check_key_exists answered
Service_create_checks(exists, create_data) ==
    IF exists THEN "DuplicateKey"
    ELSE IF HasDuplicates(CodesOf(create_data.items)) THEN "DuplicateItemCode"
    ELSE IF ~(1 <= Len(create_data.items) /\ Len(create_data.items) <= ItemLimit)
    THEN "InvalidItemCount"
    ELSE "ok"

Service_create_value_set(s, create_data) ==
    LET checks == Service_create_checks(
                    Repository_check_key_exists(s, create_data.key), create_data)
    IN  IF checks # "ok" THEN Result(s, checks)
        ELSE Result(Repository_create(s, NewDocument(create_data)), "ok")

Service_update_value_set(s, key, update_data) ==
    LET update_fields ==
            [updatedAt |-> IF update_data.updatedAt = NULL THEN Now
                           ELSE update_data.updatedAt,
             updatedBy |-> update_data.updatedBy]
                @@ Opt("status", update_data.status)
                @@ Opt("description", update_data.description)
                @@ Opt("module", update_data.module)
                @@ (IF update_data.items # <<>>
                    THEN "items" :> update_data.items ELSE <<>>)
    IN
    IF Repository_find_by_key(s, key) = 0 THEN Result(s, "NotFound")
    ELSE IF update_data.items # <<>> /\ HasDuplicates(CodesOf(update_data.items))
    THEN Result(s, "DuplicateItemCode")
    ELSE IF update_data.items # <<>>
            /\ ~(1 <= Len(update_data.items) /\ Len(update_data.items) <= ItemLimit)
    THEN Result(s, "InvalidItemCount")
    ELSE Result(Repository_update_by_key(s, key, update_fields), "ok")

\* add_item_to_value_set without the check of the existing codes
Service_add_item_to_value_set_nodup(s, key, item, updatedBy) ==
    LET current_items == Repository_get_items_by_key(s, key) IN
    IF FindOne(s, key) = 0 THEN Result(s, "NotFound")
    ELSE IF Len(current_items) >= ItemLimit
    THEN Result(s, "ItemLimitExceeded")
    ELSE Result(Repository_add_item(s, key, item, AuditFields(updatedBy)), "ok")

Service_add_item_to_value_set(s, key, item, updatedBy) ==
    LET current_items == Repository_get_items_by_key(s, key) IN
    IF FindOne(s, key) = 0 THEN Result(s, "NotFound")
    ELSE IF item.code \in Range(CodesOf(current_items))
    THEN Result(s, "DuplicateItemCode")
    ELSE IF Len(current_items) >= ItemLimit
    THEN Result(s, "ItemLimitExceeded")
    ELSE Result(Repository_add_item(s, key, item, AuditFields(updatedBy)), "ok")

\* the dict of item fields built from an ItemUpdateSchema: `if updates.code`,
\* `if labels.en` (truthiness) and `labels.hi is not None`
ItemUpdatesDict(updates) ==
    LET labels_update ==
            (IF updates.en # NULL /\ updates.en # "" THEN "en" :> updates.en
             ELSE <<>>)
                @@ Opt("hi", updates.hi)
    IN  (IF updates.code # NULL /\ updates.code # "" THEN "code" :> updates.code
         ELSE <<>>)
            @@ (IF DOMAIN labels_update # {} THEN "labels" :> labels_update
                ELSE <<>>)

Service_update_item_in_value_set(s, key, itemCode, updates, updatedBy) ==
    LET current_items == Repository_get_items_by_key(s, key)
        existing_codes ==
            {current_items[i].code : i \in {j \in 1..Len(current_items) :
                                            current_items[j].code # itemCode}}
    IN
    IF FindOne(s, key) = 0 THEN Result(s, "NotFound")
    ELSE IF itemCode \notin Range(CodesOf(current_items))
    THEN Result(s, "ItemNotFound")
    ELSE IF updates.code # NULL /\ updates.code # ""
            /\ updates.code \in existing_codes
    THEN Result(s, "DuplicateItemCode")
    ELSE Result(Repository_update_item(s, key, itemCode,
                    ItemUpdatesDict(updates), AuditFields(updatedBy)), "ok")

Service_bulk_add_items(s, key, items, updated_by) ==
    LET current_items == Repository_get_items_by_key(s, key)
        existing_codes == Range(CodesOf(current_items))
        duplicates == SelectSeq(CodesOf(items), LAMBDA c : c \in existing_codes)
        result == Repository_bulk_add_items(s,
                    <<[key |-> key, items |-> items,
                       update_fields |-> AuditFields(updated_by)]>>)
    IN
    IF FindOne(s, key) = 0
    THEN [store |-> s, outcome |-> "NotFound",
          successful |-> 0, failed |-> Len(items)]
    ELSE IF duplicates # <<>>
    THEN [store |-> s, outcome |-> "DuplicateItemCode",
          successful |-> 0, failed |-> Len(items)]
    ELSE IF Len(current_items) + Len(items) > ItemLimit
    THEN [store |-> s, outcome |-> "ItemLimitExceeded",
          successful |-> 0, failed |-> Len(items)]
    ELSE [store |-> result.store, outcome |-> "ok",
          successful |-> result.modified,
          failed |-> Len(items) - result.modified]

Service_bulk_update_items(s, itemUpdates) ==
    LET operations ==
            [i \in 1..Len(itemUpdates) |->
                [key |-> itemUpdates[i].valueSetKey,
                 item_code |-> itemUpdates[i].itemCode,
                 updates |-> ItemUpdatesDict(itemUpdates[i].updates),
                 update_fields |-> AuditFields(itemUpdates[i].updatedBy)]]
        result == Repository_bulk_update_items(s, operations)
    IN  [store |-> result.store, outcome |-> "ok",
         successful |-> result.successful, failed |-> result.failed]

Service_replace_value_in_item(s, key, oldCode, newCode, newLabels, updatedBy) ==
    LET current_items == Repository_get_items_by_key(s, key)
        pos == FirstPos(current_items, oldCode)
        existing_codes ==
            {current_items[i].code : i \in {j \in 1..Len(current_items) :
                                            current_items[j].code # oldCode}}
        new_item ==
            [code |-> newCode,
             labels |-> IF DOMAIN newLabels # {} THEN newLabels
                        ELSE current_items[pos].labels]
    IN
    IF FindOne(s, key) = 0 THEN Result(s, "NotFound")
    ELSE IF pos = 0 THEN Result(s, "ItemNotFound")
    ELSE IF newCode # oldCode /\ newCode \in existing_codes
    THEN Result(s, "DuplicateItemCode")
    ELSE Result(Repository_replace_item_value(s, key, oldCode, new_item,
                    AuditFields(updatedBy)), "ok")

\* the inputs are checked first and the documents that passed are written
\* in one insert_many
Service_bulk_import_value_sets(s, valueSets) ==
    LET Rejected(vs) ==
            \/ Repository_check_key_exists(s, vs.key)
            \/ HasDuplicates(CodesOf(vs.items))
        accepted == SelectSeq(valueSets, LAMBDA vs : ~Rejected(vs))
        errors == SelectSeq(valueSets, Rejected)
        documents == [i \in 1..Len(accepted) |-> NewDocument(accepted[i])]
    IN  IF documents # <<>>
        THEN [store |-> InsertMany(s, documents), outcome |-> "ok",
              successful |-> Len(documents), failed |-> 0 + Len(errors),
              processedKeys |-> [i \in 1..Len(documents) |-> documents[i].key]]
        ELSE [store |-> s, outcome |-> "ok",
              successful |-> 0, failed |-> Len(valueSets),
              processedKeys |-> <<>>]

\* the $set of one entry of a bulk update: audit fields and the given fields
BulkUpdateFields(update, updatedBy) ==
    AuditFields(updatedBy)
        @@ Opt("status", update.status)
        @@ Opt("module", update.module)
        @@ Opt("description", update.description)

Service_bulk_update_value_sets(s, updates, updatedBy) ==
    LET operations ==
            [i \in 1..Len(updates) |->
                [key |-> updates[i].key,
                 updates |-> BulkUpdateFields(updates[i], updatedBy)]]
        result == Repository_bulk_update(s, operations)
    IN  [store |-> result.store,
         outcome |-> "ok",
         successful |-> result.modified,
         failed |-> Len(operations) - result.modified,
         processedKeys |->
            [i \in 1..result.modified |-> operations[i].key]]

Service_archive_value_set(s, key, updatedBy) ==
    LET current == Repository_find_by_key(s, key) IN
    IF current = 0 THEN Result(s, "NotFound")
    ELSE IF s[current].status = "archived" THEN Result(s, "AlreadyArchived")
    ELSE Result(Repository_archive(s, key, AuditFields(updatedBy)), "ok")

Service_restore_value_set(s, key, updatedBy) ==
    LET current == Repository_find_by_key(s, key) IN
    IF current = 0 THEN Result(s, "NotFound")
    ELSE IF s[current].status = "active" THEN Result(s, "AlreadyActive")
    ELSE Result(Repository_restore(s, key, AuditFields(updatedBy)), "ok")

\* export_value_set(key, "json"): the exported dict, or an error
Service_export_value_set(s, key) ==
    IF DOMAIN Repository_export_value_set(s, key) = {}
    THEN [outcome |-> "NotFound", payload |-> <<>>]
    ELSE [outcome |-> "ok", payload |-> Repository_export_value_set(s, key)]

\* the repository's statistics, with the capacity figures added when the
\* item statistics are not an empty dict; the percentage is kept as the pair
\* <<numerator, denominator>>
Service_get_value_set_statistics(s) ==
    LET stats == Repository_get_statistics(s) IN
    IF DOMAIN stats.items_statistics # {}
    THEN [stats EXCEPT !.items_statistics =
            [total_capacity |-> stats.total_value_sets * ItemLimit,
             capacity_used_percent |->
                IF stats.total_value_sets > 0
                THEN <<stats.items_statistics.total_items,
                       stats.total_value_sets * ItemLimit * 100>>
                ELSE <<0, 1>>] @@ @]
    ELSE stats

\* ValueSetListItemSchema(**doc, itemCount=len(items))
ListItem(doc) ==
    [id |-> doc.id, key |-> doc.key, status |-> doc.status,
     module |-> doc.module, description |-> doc.description,
     itemCount |-> Len(doc.items), createdAt |-> doc.createdAt,
     updatedAt |-> doc.updatedAt]

Service_list_value_sets(s, query_params) ==
    LET filter_query ==
            Opt("status", query_params.status)
                @@ (IF query_params.module # NULL /\ query_params.module # ""
                    THEN "module" :> query_params.module ELSE <<>>)
        result == Repository_list_value_sets(s, filter_query,
                        query_params.skip, query_params.limit)
    IN  [outcome |-> "ok",
         total |-> result.total,
         items |-> [i \in 1..Len(result.documents) |->
                        ListItem(result.documents[i])],
         hasMore |-> (query_params.skip + query_params.limit) < result.total]

\* the endpoint builds the query object, which pydantic validates, and
\* calls the service
list_value_sets(s, status, module, skip, limit) ==
    LET query_params == [status |-> status, module |-> module,
                         skip |-> skip, limit |-> limit]
    IN  IF ~ListValueSetsQuerySchema(query_params)
        THEN [outcome |-> "ValidationError", total |-> 0, items |-> <<>>,
              hasMore |-> FALSE]
        ELSE Service_list_value_sets(s, query_params)

\* a validation that also stores the draft when its key is free
Service_validate_value_set_creating(s, validation_request) ==
    [store |-> IF Repository_check_key_exists(s, validation_request.key) THEN s
               ELSE Repository_create(s,
                        NewDocument(validation_request
                            @@ [description |-> NULL, createdAt |-> NULL,
                                createdBy |-> NULL])),
     outcome |-> "valid", errors |-> {}, warnings |-> {}]

\* errors and warnings of a draft; the key is only looked up
Service_validate_value_set(s, validation_request) ==
    LET items == validation_request.items
        errors ==
            (IF HasDuplicates(CodesOf(items))
             THEN {"Item codes must be unique within the value set"} ELSE {})
            \cup
            (IF ~(1 <= Len(items) /\ Len(items) <= ItemLimit)
             THEN {"Number of items must be between 1 and 500"} ELSE {})
            \cup
            (IF \E i \in 1..Len(items) :
                    Get(items[i].labels, "en") \in {NULL, ""}
             THEN {"English label required"} ELSE {})
            \cup
            (IF validation_request.status \notin {"active", "archived"}
             THEN {"Invalid status"} ELSE {})
        warnings ==
            IF Repository_check_key_exists(s, validation_request.key)
            THEN {"Value set with key already exists"} ELSE {}
    IN  [store |-> s,
         outcome |-> IF errors = {} THEN "valid" ELSE "invalid",
         errors |-> errors, warnings |-> warnings]

\* the dict import_value_set stores once the key is free: no validation
ImportDocument(import_data, created_by) ==
    [NewDocument(import_data) EXCEPT !.createdAt = Now, !.createdBy = created_by]

Service_import_value_set(s, import_data, created_by) ==
    IF Repository_check_key_exists(s, import_data.key)
    THEN Result(s, "DuplicateKey")
    ELSE Result(Repository_import_value_set(s,
                    ImportDocument(import_data, created_by)), "ok")

---------------------------------------------------------------------------
(* ValueSetLibrary *)

Library_check_key_exists(s, key) == CountDocuments(s, key) > 0

\* index of the document found, 0 for None
Library_get_value_set_by_key(s, key) == FindOne(s, key)

\* the checks of create_value_set, given what check_key_exists answered
Library_create_checks(exists, in) ==
    IF exists THEN "DuplicateKey"
    ELSE IF HasDuplicates(CodesOf(in.items)) THEN "DuplicateItemCode"
    ELSE IF ~(1 <= Len(in.items) /\ Len(in.items) <= ItemLimit)
    THEN "InvalidItemCount"
    ELSE "ok"

Library_create_value_set(s, in) ==
    LET checks == Library_create_checks(Library_check_key_exists(s, in.key), in)
    IN  IF checks # "ok" THEN Result(s, checks)
        ELSE Result(InsertOne(s, NewDocument(in)), "ok")

RECURSIVE Library_bulk_create_value_sets_stopping(_, _, _)
\* a bulk create that gives up at the first input it cannot create
Library_bulk_create_value_sets_stopping(s, value_sets, skip_existing) ==
    IF value_sets = <<>>
    THEN [store |-> s, outcome |-> "ok",
          created |-> <<>>, failed |-> <<>>, skipped |-> <<>>]
    ELSE LET value_set == Head(value_sets)
             result == Library_create_value_set(s, value_set)
             rest == Library_bulk_create_value_sets_stopping(result.store,
                        Tail(value_sets), skip_existing)
         IN  IF result.outcome # "ok"
             THEN [store |-> s, outcome |-> "ok", created |-> <<>>,
                   failed |-> <<value_set.key>>, skipped |-> <<>>]
             ELSE [rest EXCEPT !.created = <<value_set.key>> \o @]

RECURSIVE Library_bulk_create_value_sets(_, _, _)
\* one value set after the other: skipped or failed when its key exists,
\* else created, or failed when create_value_set raises
Library_bulk_create_value_sets(s, value_sets, skip_existing) ==
    IF value_sets = <<>>
    THEN [store |-> s, outcome |-> "ok",
          created |-> <<>>, failed |-> <<>>, skipped |-> <<>>]
    ELSE LET value_set == Head(value_sets)
             exists == Library_check_key_exists(s, value_set.key)
             result == Library_create_value_set(s, value_set)
             verdict ==
                IF exists
                THEN (IF skip_existing THEN "skipped" ELSE "failed")
                ELSE IF result.outcome = "ok" THEN "created" ELSE "failed"
             rest == Library_bulk_create_value_sets(
                        IF exists THEN s ELSE result.store,
                        Tail(value_sets), skip_existing)
             Entry(kind) == IF verdict = kind THEN <<value_set.key>> ELSE <<>>
         IN  [store |-> rest.store, outcome |-> "ok",
              created |-> Entry("created") \o rest.created,
              failed |-> Entry("failed") \o rest.failed,
              skipped |-> Entry("skipped") \o rest.skipped]

\* $set of every entry of the caller's dict that is not None, audit included
Library_update_value_set(s, key, updates, updated_by, updated_at) ==
    LET with_audit ==
            [updatedBy |-> updated_by,
             updatedAt |-> IF updated_at = NULL THEN Now ELSE updated_at]
                @@ updates
        kept == {f \in DOMAIN with_audit :
                    f = "items" \/ with_audit[f] # NULL}
        set_updates == [f \in kept |-> with_audit[f]]
        Upd(doc) == SetFields(doc, set_updates)
    IN  IF FindOne(s, key) = 0 THEN Result(s, "NotFound")
        ELSE Result(FindOneAndUpdate(s, key, Upd(s[FindOne(s, key)])), "ok")

Library_add_item_to_value_set(s, key, item, updated_by) ==
    LET value_set == Library_get_value_set_by_key(s, key)
        Upd(doc) == SetFields(PushItems(doc, <<item>>), AuditFields(updated_by))
    IN
    IF value_set = 0 THEN Result(s, "NotFound")
    ELSE IF item.code \in Range(CodesOf(s[value_set].items))
    THEN Result(s, "DuplicateItemCode")
    ELSE Result(FindOneAndUpdate(s, key, Upd(s[FindOne(s, key)])), "ok")

\* bulk_add_items appending the items whose code is not stored yet
Library_bulk_add_items_partial(s, key, items, updated_by) ==
    LET value_set == Library_get_value_set_by_key(s, key)
        existing_codes == CodesOf(s[value_set].items)
        fresh == SelectSeq(items, LAMBDA it : it.code \notin Range(existing_codes))
        Upd(doc) == SetFields(PushItems(doc, fresh), AuditFields(updated_by))
    IN
    IF value_set = 0 THEN Result(s, "NotFound")
    ELSE IF HasDuplicates(CodesOf(items)) THEN Result(s, "DuplicateItemCode")
    ELSE IF Len(existing_codes) + Len(fresh) > ItemLimit
    THEN Result(s, "ItemLimitExceeded")
    ELSE Result(FindOneAndUpdate(s, key, Upd(s[FindOne(s, key)])), "ok")

Library_bulk_add_items(s, key, items, updated_by) ==
    LET value_set == Library_get_value_set_by_key(s, key)
        existing_codes == CodesOf(s[value_set].items)
        new_codes == CodesOf(items)
        Upd(doc) == SetFields(PushItems(doc, items), AuditFields(updated_by))
    IN
    IF value_set = 0 THEN Result(s, "NotFound")
    ELSE IF HasDuplicates(new_codes) THEN Result(s, "DuplicateItemCode")
    ELSE IF Range(new_codes) \cap Range(existing_codes) # {}
    THEN Result(s, "DuplicateItemCode")
    ELSE IF Len(existing_codes) + Len(items) > ItemLimit
    THEN Result(s, "ItemLimitExceeded")
    ELSE Result(FindOneAndUpdate(s, key, Upd(s[FindOne(s, key)])), "ok")

\* items.$.labels.<lang> per language, items.$.<field> for the other fields
Library_update_item_in_value_set(s, key, item_code, updates, updated_by) ==
    LET idx == FindOneWithItem(s, key, item_code)
        pos == FirstPos(s[idx].items, item_code)
        UpdItem(item) ==
            [code |-> IF "code" \in DOMAIN updates THEN updates.code
                      ELSE item.code,
             labels |-> IF "labels" \in DOMAIN updates
                        THEN updates.labels @@ item.labels
                        ELSE item.labels]
        Upd(doc) == SetFields([doc EXCEPT !.items[pos] = UpdItem(@)],
                              AuditFields(updated_by))
    IN  IF idx = 0 THEN Result(s, "NotFound")
        ELSE Result([s EXCEPT ![idx] = Upd(@)], "ok")

\* remove that answers not found when no item carries the code
Library_remove_item_from_value_set_strict(s, key, item_code, updated_by) ==
    LET Upd(doc) == SetFields(PullItems(doc, item_code), AuditFields(updated_by))
    IN  IF FindOneWithItem(s, key, item_code) = 0 THEN Result(s, "NotFound")
        ELSE Result(FindOneAndUpdate(s, key, Upd(s[FindOne(s, key)])), "ok")

Library_remove_item_from_value_set(s, key, item_code, updated_by) ==
    LET Upd(doc) == SetFields(PullItems(doc, item_code), AuditFields(updated_by))
    IN  IF FindOne(s, key) = 0 THEN Result(s, "NotFound")
        ELSE Result(FindOneAndUpdate(s, key, Upd(s[FindOne(s, key)])), "ok")

\* edits the item in the list that was read and writes the whole list back
Library_replace_item_code(s, key, old_code, new_code, new_labels, updated_by) ==
    LET value_set == Library_get_value_set_by_key(s, key)
        items == s[value_set].items
        pos == FirstPos(items, old_code)
        replaced ==
            [items EXCEPT ![pos] =
                [code |-> new_code,
                 labels |-> IF DOMAIN new_labels # {} THEN new_labels
                            ELSE @.labels]]
        Upd(doc) == SetFields(doc, [items |-> replaced] @@ AuditFields(updated_by))
    IN
    IF value_set = 0 THEN Result(s, "NotFound")
    ELSE IF new_code # old_code /\ new_code \in Range(CodesOf(items))
    THEN Result(s, "DuplicateItemCode")
    ELSE IF pos = 0 THEN Result(s, "ItemNotFound")
    ELSE Result(FindOneAndUpdate(s, key, Upd(s[FindOne(s, key)])), "ok")

\* the dict the updated router builds from one entry of a bulk update
LibraryBulkUpdateDict(update) ==
    Opt("status", update.status)
        @@ Opt("description", update.description)
        @@ Opt("module", update.module)

RECURSIVE Library_bulk_update_value_sets(_, _, _)
\* update_value_set per entry, in order; updated and failed list the keys
Library_bulk_update_value_sets(s, updates, updated_by) ==
    IF updates = <<>>
    THEN [store |-> s, outcome |-> "ok", updated |-> <<>>, failed |-> <<>>]
    ELSE LET update_op == Head(updates)
             one == Library_update_value_set(s, update_op.key,
                        LibraryBulkUpdateDict(update_op), updated_by, NULL)
             rest == Library_bulk_update_value_sets(one.store, Tail(updates),
                                                    updated_by)
         IN  [store |-> rest.store,
              outcome |-> "ok",
              updated |-> (IF one.outcome = "ok" THEN <<update_op.key>>
                           ELSE <<>>) \o rest.updated,
              failed |-> (IF one.outcome = "ok" THEN <<>>
                          ELSE <<update_op.key>>) \o rest.failed]

\* archiveReason, archivedBy, archivedAt and the restore* fields are written
\* here and read by no handler; the document model leaves them out
Library_archive_value_set(s, key, archived_by) ==
    LET Upd(doc) ==
            SetFields(doc, [status |-> "archived"] @@ AuditFields(archived_by))
    IN  IF FindOne(s, key) = 0 THEN Result(s, "NotFound")
        ELSE Result(FindOneAndUpdate(s, key, Upd(s[FindOne(s, key)])), "ok")

Library_restore_value_set(s, key, restored_by) ==
    LET Upd(doc) ==
            SetFields(doc, [status |-> "active"] @@ AuditFields(restored_by))
    IN  IF FindOne(s, key) = 0 THEN Result(s, "NotFound")
        ELSE Result(FindOneAndUpdate(s, key, Upd(s[FindOne(s, key)])), "ok")

\* update_many({"key": {"$in": keys}}, {"$set": ...}): no status check
Library_bulk_archive(s, keys, archived_by) ==
    [store |->
        [i \in 1..Len(s) |->
            IF s[i].key \in keys
            THEN SetFields(s[i], [status |-> "archived"]
                                    @@ AuditFields(archived_by))
            ELSE s[i]],
     outcome |-> "ok",
     matched |-> Cardinality({i \in 1..Len(s) : s[i].key \in keys})]

RECURSIVE SumValues(_)
\* sum(counts.values())
SumValues(counts) ==
    IF DOMAIN counts = {} THEN 0
    ELSE LET v == CHOOSE v \in DOMAIN counts : TRUE
         IN  counts[v] + SumValues([w \in DOMAIN counts \ {v} |-> counts[w]])

\* the $facet pipeline of the library; round(average, 2) is kept in
\* hundredths
Library_get_statistics(s) ==
    LET status_counts == GroupCount(s, "status")
        module_counts == GroupCount(s, "module")
        total_items == IF SumItems(s) > 0 THEN <<[count |-> SumItems(s)]>>
                       ELSE <<>>
        avg_items == IF s = <<>> THEN <<>>
                     ELSE <<[average |-> <<SumItems(s), Len(s)>>]>>
    IN  [totalValueSets |-> SumValues(status_counts),
         statusCounts |-> status_counts,
         moduleCounts |-> module_counts,
         totalItems |-> IF total_items # <<>> THEN total_items[1].count ELSE 0,
         averageItemsPerSet |->
            IF avg_items # <<>>
            THEN (200 * avg_items[1].average[1] + avg_items[1].average[2])
                    \div (2 * avg_items[1].average[2])
            ELSE 0]

\* the errors of a draft that has the fields key, status and items
Library_validate_value_set(value_set_data) ==
    LET items == value_set_data.items IN
    (IF value_set_data.status \notin {"active", "archived"}
     THEN {"Status must be 'active' or 'archived'"} ELSE {})
    \cup
    (IF items = <<>> THEN {"At least one item is required"}
     ELSE IF Len(items) > ItemLimit THEN {"Maximum 500 items allowed"}
     ELSE (IF \E i \in 1..Len(items) : "en" \notin DOMAIN items[i].labels
           THEN {"Item missing English label"} ELSE {})
          \cup
          (IF HasDuplicates(CodesOf(items))
           THEN {"Duplicate item codes found"} ELSE {}))

\* json.dumps(value_set, default=str): a datetime is written as its string
JsonDumps(value_set) ==
    [f \in DOMAIN value_set |->
        IF f \in {"createdAt", "updatedAt"} /\ value_set[f] # NULL
        THEN <<"str", value_set[f]>>
        ELSE value_set[f]]

\* json.loads(data): strings stay strings, null is None
JsonLoads(data) == data

\* export_value_set(key, "json"): the JSON text, or None
Library_export_value_set(s, key) ==
    LET value_set == Library_get_value_set_by_key(s, key) IN
    IF value_set = 0 THEN [outcome |-> "NotFound", payload |-> <<>>]
    ELSE [outcome |-> "ok",
          payload |-> JsonDumps([f \in DOMAIN s[value_set] \ {"id"} |->
                                    s[value_set][f]])]

\* the arguments import_value_set passes to create_value_set
ImportArguments(value_set_data, created_by) ==
    [key |-> value_set_data.key,
     status |-> value_set_data.status,
     module |-> value_set_data.module,
     description |-> value_set_data.description,
     items |-> value_set_data.items,
     createdBy |-> created_by,
     createdAt |-> NULL]

Library_import_value_set(s, value_set_data, created_by) ==
    IF Library_validate_value_set(value_set_data) # {}
    THEN Result(s, "ValidationFailed")
    ELSE Library_create_value_set(s, ImportArguments(value_set_data, created_by))

---------------------------------------------------------------------------
(* Inputs *)

Prefix(n) == [i \in 1..n |-> MkItem(CodeNames[i], DefaultLabels)]

ItemInputs == {MkItem(c, DefaultLabels) : c \in Codes}

\* 0 .. ItemLimit + 1 distinct items, and a list with a repeated code
ItemLists ==
    {Prefix(n) : n \in 0..(ItemLimit + 1)}
        \cup {<<MkItem("A", DefaultLabels), MkItem("A", DefaultLabels)>>}

SeqsUpTo(S, n) == UNION {[1..m -> S] : m \in 0..n}

Batches == SeqsUpTo(ItemInputs, MaxBatch)

\* the sequential specification creates the value set "k1" and leaves "k2"
\* absent: requests name either key
CreateKeys == {"k1"}

CreateInputs ==
    [key : CreateKeys, status : Statuses, module : {"Core"}, description : {NULL},
     items : ItemLists, createdBy : Creators, createdAt : {"t0"}]

\* an update of the status or of the items
UpdateInputs ==
    [status : Statuses, description : {NULL}, module : {NULL},
     items : {<<>>}, updatedBy : Updaters, updatedAt : {NULL}]
    \cup
    [status : {NULL}, description : {NULL}, module : {NULL},
     items : ItemLists, updatedBy : Updaters, updatedAt : {NULL}]

UpdateDicts ==
    {<<>>} \cup {[items |-> l] : l \in ItemLists}
           \cup {[status |-> st] : st \in Statuses}

\* the first two codes: a rename onto a stored code, or onto a free one
RenameCodes == {CodeNames[1], CodeNames[2]}

ItemUpdateInputs == [code : {NULL} \cup RenameCodes, en : {NULL}, hi : {NULL}]

\* a create request whose only item has the empty string as English label
EmptyLabelCreateInputs ==
    [key : CreateKeys, status : {"active"}, module : {"Core"},
     description : {NULL},
     items : {<<MkItem(CodeNames[1], [en |-> "", hi |-> NULL])>>},
     createdBy : Creators, createdAt : {"t0"}]

\* the value sets of a bulk create: no item or one item, on either key
BulkCreateEntries ==
    [key : Keys, status : {"active"}, module : {"Core"}, description : {NULL},
     items : {<<>>, Prefix(1)}, createdBy : Creators, createdAt : {NULL}]

BulkCreateInputs == SeqsUpTo(BulkCreateEntries, MaxBatch) \ {<<>>}

\* the bulk requests of the sequential specification, which creates "k1"
BulkCreateRequests ==
    {value_sets \in BulkCreateInputs :
        \A i \in 1..Len(value_sets) : value_sets[i].key \in CreateKeys}

\* create requests on either key, in two modules, with and without createdAt
ListCreateInputs ==
    [key : Keys, status : Statuses, module : {"Core", "HR"},
     description : {NULL}, items : {Prefix(1), Prefix(2)},
     createdBy : Creators, createdAt : {"t0", NULL}]

\* list queries: every filter, every window, and a limit above the maximum
ListQueries ==
    [status : {NULL} \cup Statuses, module : {NULL, "Core"},
     skip : 0..MaxDocs, limit : 1..(LimitMax + 1)]

\* drafts to validate: valid and invalid item lists, on either key
ValidateInputs ==
    [key : Keys, status : Statuses, module : {"Core"}, items : ItemLists]

\* LabelUpdateSchema with at least one language given
LabelUpdateInputs ==
    [code : {NULL}, en : {NULL, "x"}, hi : {NULL, "b"}]
        \ {[code |-> NULL, en |-> NULL, hi |-> NULL]}

\* bulk requests that rename items to the first code
BulkItemUpdateInputs ==
    SeqsUpTo([valueSetKey : Keys, itemCode : RenameCodes,
              updates : [code : {CodeNames[1]}, en : {NULL}, hi : {NULL}],
              updatedBy : Updaters], MaxBatch)

\* BulkValueSetUpdateItemSchema entries that archive or only refresh
BulkUpdateEntries ==
    [key : Keys, status : {NULL, "archived"}, module : {NULL},
     description : {NULL}]

\* 1 .. MaxBatch entries on distinct keys: the updates of one request are
\* written unordered, so their result is fixed when no key repeats
BulkUpdateInputs ==
    {u \in SeqsUpTo(BulkUpdateEntries, MaxBatch) :
        /\ Len(u) >= 1
        /\ \A i, j \in 1..Len(u) : u[i].key = u[j].key => i = j}

\* the dict the updated router passes to the library's update_item
LibraryItemUpdates(updates) ==
    (IF updates.code # NULL /\ updates.code # "" THEN "code" :> updates.code
     ELSE <<>>)
        @@ ("labels" :> (Opt("en", updates.en) @@ Opt("hi", updates.hi)))

---------------------------------------------------------------------------
(* Sequential specification: every handler runs to completion *)

\* handlers that do not check the item limit stop one item above it
StoreWithinBounds(s) ==
    /\ \A i \in 1..Len(s) : Len(s[i].items) <= ItemLimit + 1

\* every action applies one handler to the collection and records its answer

ServiceCreate ==
    \E in \in CreateInputs :
        LET r == Service_create_value_set(store, in) IN
        /\ ValueSetCreateSchema(in)
        /\ StoreWithinBounds(r.store)
        /\ store' = r.store
        /\ response' = [op |-> "Service.create_value_set", outcome |-> r.outcome]
        /\ UNCHANGED procs

LibraryCreate ==
    \E in \in CreateInputs :
        LET r == Library_create_value_set(store, in) IN
        /\ StoreWithinBounds(r.store)
        /\ store' = r.store
        /\ response' = [op |-> "Library.create_value_set", outcome |-> r.outcome]
        /\ UNCHANGED procs

ServiceImport ==
    \E in \in CreateInputs, by \in Creators :
        LET r == Service_import_value_set(store, in, by) IN
        /\ StoreWithinBounds(r.store)
        /\ store' = r.store
        /\ response' = [op |-> "Service.import_value_set", outcome |-> r.outcome]
        /\ UNCHANGED procs

LibraryImport ==
    \E in \in CreateInputs, by \in Creators :
        LET r == Library_import_value_set(store, in, by) IN
        /\ StoreWithinBounds(r.store)
        /\ store' = r.store
        /\ response' = [op |-> "Library.import_value_set", outcome |-> r.outcome]
        /\ UNCHANGED procs

ServiceUpdate ==
    \E key \in Keys, update_data \in UpdateInputs :
        LET r == Service_update_value_set(store, key, update_data) IN
        /\ ValueSetUpdateSchema(update_data)
        /\ StoreWithinBounds(r.store)
        /\ store' = r.store
        /\ response' = [op |-> "Service.update_value_set", outcome |-> r.outcome]
        /\ UNCHANGED procs

LibraryUpdate ==
    \E key \in Keys, updates \in UpdateDicts, by \in Updaters :
        LET r == Library_update_value_set(store, key, updates, by, NULL) IN
        /\ StoreWithinBounds(r.store)
        /\ store' = r.store
        /\ response' = [op |-> "Library.update_value_set", outcome |-> r.outcome]
        /\ UNCHANGED procs

ServiceAddItem ==
    \E key \in Keys, item \in ItemInputs, by \in Updaters :
        LET r == Service_add_item_to_value_set(store, key, item, by) IN
        /\ StoreWithinBounds(r.store)
        /\ store' = r.store
        /\ response' = [op |-> "Service.add_item_to_value_set", outcome |-> r.outcome]
        /\ UNCHANGED procs

LibraryAddItem ==
    \E key \in Keys, item \in ItemInputs, by \in Updaters :
        LET r == Library_add_item_to_value_set(store, key, item, by) IN
        /\ StoreWithinBounds(r.store)
        /\ store' = r.store
        /\ response' = [op |-> "Library.add_item_to_value_set", outcome |-> r.outcome]
        /\ UNCHANGED procs

ServiceBulkAddItems ==
    \E key \in Keys, items \in Batches, by \in Updaters :
        LET r == Service_bulk_add_items(store, key, items, by) IN
        /\ StoreWithinBounds(r.store)
        /\ store' = r.store
        /\ response' = [op |-> "Service.bulk_add_items", outcome |-> r.outcome]
        /\ UNCHANGED procs

LibraryBulkAddItems ==
    \E key \in Keys, items \in Batches, by \in Updaters :
        LET r == Library_bulk_add_items(store, key, items, by) IN
        /\ StoreWithinBounds(r.store)
        /\ store' = r.store
        /\ response' = [op |-> "Library.bulk_add_items", outcome |-> r.outcome]
        /\ UNCHANGED procs

ServiceUpdateItem ==
    \E key \in Keys, code \in Codes, updates \in ItemUpdateInputs, by \in Updaters :
        LET r == Service_update_item_in_value_set(store, key, code, updates, by) IN
        /\ StoreWithinBounds(r.store)
        /\ store' = r.store
        /\ response' = [op |-> "Service.update_item_in_value_set", outcome |-> r.outcome]
        /\ UNCHANGED procs

LibraryUpdateItem ==
    \E key \in Keys, code \in Codes, updates \in ItemUpdateInputs, by \in Updaters :
        LET r == Library_update_item_in_value_set(store, key, code,
                        LibraryItemUpdates(updates), by) IN
        /\ StoreWithinBounds(r.store)
        /\ store' = r.store
        /\ response' = [op |-> "Library.update_item_in_value_set", outcome |-> r.outcome]
        /\ UNCHANGED procs

ServiceBulkUpdateItems ==
    \E itemUpdates \in BulkItemUpdateInputs :
        LET r == Service_bulk_update_items(store, itemUpdates) IN
        /\ BulkItemUpdateSchema(itemUpdates)
        /\ StoreWithinBounds(r.store)
        /\ store' = r.store
        /\ response' = [op |-> "Service.bulk_update_items", outcome |-> r.outcome]
        /\ UNCHANGED procs

ServiceReplaceItemCode ==
    \E key \in Keys, old \in Codes, new \in Codes, by \in Updaters :
        LET r == Service_replace_value_in_item(store, key, old, new, <<>>, by) IN
        /\ StoreWithinBounds(r.store)
        /\ store' = r.store
        /\ response' = [op |-> "Service.replace_value_in_item", outcome |-> r.outcome]
        /\ UNCHANGED procs

LibraryReplaceItemCode ==
    \E key \in Keys, old \in Codes, new \in Codes, by \in Updaters :
        LET r == Library_replace_item_code(store, key, old, new, <<>>, by) IN
        /\ StoreWithinBounds(r.store)
        /\ store' = r.store
        /\ response' = [op |-> "Library.replace_item_code", outcome |-> r.outcome]
        /\ UNCHANGED procs

LibraryRemoveItem ==
    \E key \in Keys, code \in Codes, by \in Updaters :
        LET r == Library_remove_item_from_value_set(store, key, code, by) IN
        /\ StoreWithinBounds(r.store)
        /\ store' = r.store
        /\ response' = [op |-> "Library.remove_item_from_value_set", outcome |-> r.outcome]
        /\ UNCHANGED procs

ServiceArchive ==
    \E key \in Keys, by \in Updaters :
        LET r == Service_archive_value_set(store, key, by) IN
        /\ StoreWithinBounds(r.store)
        /\ store' = r.store
        /\ response' = [op |-> "Service.archive_value_set", outcome |-> r.outcome]
        /\ UNCHANGED procs

ServiceRestore ==
    \E key \in Keys, by \in Updaters :
        LET r == Service_restore_value_set(store, key, by) IN
        /\ StoreWithinBounds(r.store)
        /\ store' = r.store
        /\ response' = [op |-> "Service.restore_value_set", outcome |-> r.outcome]
        /\ UNCHANGED procs

LibraryArchive ==
    \E key \in Keys, by \in Updaters :
        LET r == Library_archive_value_set(store, key, by) IN
        /\ StoreWithinBounds(r.store)
        /\ store' = r.store
        /\ response' = [op |-> "Library.archive_value_set", outcome |-> r.outcome]
        /\ UNCHANGED procs

LibraryRestore ==
    \E key \in Keys, by \in Updaters :
        LET r == Library_restore_value_set(store, key, by) IN
        /\ StoreWithinBounds(r.store)
        /\ store' = r.store
        /\ response' = [op |-> "Library.restore_value_set", outcome |-> r.outcome]
        /\ UNCHANGED procs

ServiceBulkUpdateValueSets ==
    \E updates \in BulkUpdateInputs, by \in Updaters :
        LET r == Service_bulk_update_value_sets(store, updates, by) IN
        /\ store' = r.store
        /\ response' = [op |-> "Service.bulk_update_value_sets",
                        outcome |-> r.outcome]
        /\ UNCHANGED procs

LibraryBulkUpdateValueSets ==
    \E updates \in BulkUpdateInputs, by \in Updaters :
        LET r == Library_bulk_update_value_sets(store, updates, by) IN
        /\ store' = r.store
        /\ response' = [op |-> "Library.bulk_update_value_sets",
                        outcome |-> r.outcome]
        /\ UNCHANGED procs

LibraryBulkArchive ==
    \E keys \in (SUBSET Keys) \ {{}}, by \in Updaters :
        LET r == Library_bulk_archive(store, keys, by) IN
        /\ store' = r.store
        /\ response' = [op |-> "Library.bulk_archive", outcome |-> r.outcome]
        /\ UNCHANGED procs

ServiceBulkImport ==
    \E valueSets \in BulkCreateRequests :
        LET r == Service_bulk_import_value_sets(store, valueSets) IN
        /\ BulkValueSetCreateSchema(valueSets)
        /\ \A i \in 1..Len(valueSets) : ValueSetCreateSchema(valueSets[i])
        /\ store' = r.store
        /\ response' = [op |-> "Service.bulk_import_value_sets",
                        outcome |-> r.outcome,
                        created |-> r.processedKeys]
        /\ UNCHANGED procs

LibraryBulkCreate ==
    \E value_sets \in BulkCreateRequests, skip_existing \in BOOLEAN :
        LET r == Library_bulk_create_value_sets(store, value_sets,
                        skip_existing) IN
        /\ store' = r.store
        /\ response' = [op |-> "Library.bulk_create_value_sets",
                        outcome |-> r.outcome,
                        created |-> r.created, failed |-> r.failed,
                        skipped |-> r.skipped]
        /\ UNCHANGED procs

ServiceValidate ==
    \E validation_request \in ValidateInputs :
        LET r == Service_validate_value_set(store, validation_request) IN
        /\ ValidateValueSetRequestSchema(validation_request)
        /\ store' = r.store
        /\ response' = [op |-> "Service.validate_value_set", outcome |-> r.outcome]
        /\ UNCHANGED procs

\* validate_value_set of the library reads its argument only
LibraryValidate ==
    \E value_set_data \in ValidateInputs :
        /\ store' = store
        /\ response' = [op |-> "Library.validate_value_set",
                        outcome |-> IF Library_validate_value_set(value_set_data) = {}
                                    THEN "valid" ELSE "invalid"]
        /\ UNCHANGED procs

ServiceExport ==
    \E key \in Keys :
        /\ response' = [op |-> "Service.export_value_set",
                        outcome |-> Service_export_value_set(store, key).outcome]
        /\ UNCHANGED <<store, procs>>

LibraryExport ==
    \E key \in Keys :
        /\ response' = [op |-> "Library.export_value_set",
                        outcome |-> Library_export_value_set(store, key).outcome]
        /\ UNCHANGED <<store, procs>>

Procs == {"p1", "p2"}

Idle == [pc |-> "idle", op |-> "none", value_sets |-> <<>>,
         skip_existing |-> TRUE, i |-> 1, documents |-> <<>>]

\* an empty collection and no request in flight
Init ==
    /\ store = <<>>
    /\ response = [op |-> "none", outcome |-> "none"]
    /\ procs = [p \in Procs |-> Idle]

Next ==
    \/ ServiceCreate
    \/ LibraryCreate
    \/ ServiceImport
    \/ LibraryImport
    \/ ServiceUpdate
    \/ LibraryUpdate
    \/ ServiceAddItem
    \/ LibraryAddItem
    \/ ServiceBulkAddItems
    \/ LibraryBulkAddItems
    \/ ServiceUpdateItem
    \/ LibraryUpdateItem
    \/ ServiceBulkUpdateItems
    \/ ServiceReplaceItemCode
    \/ LibraryReplaceItemCode
    \/ LibraryRemoveItem
    \/ ServiceArchive
    \/ ServiceRestore
    \/ LibraryArchive
    \/ LibraryRestore
    \/ ServiceBulkUpdateValueSets
    \/ LibraryBulkUpdateValueSets
    \/ LibraryBulkArchive
    \/ ServiceExport
    \/ LibraryExport
    \/ ServiceBulkImport
    \/ LibraryBulkCreate
    \/ ServiceValidate
    \/ LibraryValidate

Spec == Init /\ [][Next]_vars

---------------------------------------------------------------------------
(* Concurrent specification: Create, BulkCreate and Import requests run as *)
(* coroutines that interleave at every await on the collection             *)

ConcInputs ==
    [key : Keys, status : {"active"}, module : {"Core"}, description : {NULL},
     items : {Prefix(1)}, createdBy : Creators, createdAt : {NULL}]

SingleOps == {"Service.create_value_set", "Library.create_value_set",
              "Service.import_value_set", "Library.import_value_set"}

BulkOps == {"Service.bulk_import_value_sets", "Library.bulk_create_value_sets"}

Requests ==
    [op : SingleOps, value_sets : [1..1 -> ConcInputs], skip_existing : {TRUE}]
    \cup
    {r \in [op : BulkOps, value_sets : SeqsUpTo(ConcInputs, MaxBatch),
            skip_existing : {TRUE}] : BulkValueSetCreateSchema(r.value_sets)}

\* the request returns
Finish(p, outcome) ==
    /\ procs' = [procs EXCEPT ![p] = Idle]
    /\ response' = [op |-> procs[p].op, outcome |-> outcome]

\* a bulk request moves to its next value set, or to its end
Advance(p, documents) ==
    IF procs[p].i < Len(procs[p].value_sets)
    THEN /\ procs' = [procs EXCEPT ![p].pc = "check", ![p].i = @ + 1,
                                   ![p].documents = documents]
         /\ UNCHANGED response
    ELSE IF documents # <<>>
    THEN /\ procs' = [procs EXCEPT ![p].pc = "insert_many",
                                   ![p].documents = documents]
         /\ UNCHANGED response
    ELSE Finish(p, "ok")

Submit(p) ==
    /\ procs[p].pc = "idle"
    /\ \E r \in Requests :
          procs' = [procs EXCEPT ![p] =
                      [pc |-> "check", op |-> r.op, value_sets |-> r.value_sets,
                       skip_existing |-> r.skip_existing, i |-> 1,
                       documents |-> <<>>]]
    /\ UNCHANGED <<store, response>>

\* await check_key_exists(key), and what the handler does up to its next await
CheckKey(p) ==
    LET op == procs[p].op
        in == procs[p].value_sets[procs[p].i]
    IN
    /\ procs[p].pc = "check"
    /\ UNCHANGED store
    /\ CASE op = "Service.create_value_set" ->
              LET checks == Service_create_checks(
                                Repository_check_key_exists(store, in.key), in)
              IN  IF checks # "ok" THEN Finish(p, checks)
                  ELSE procs' = [procs EXCEPT ![p].pc = "insert"]
                       /\ UNCHANGED response
         [] op = "Library.create_value_set" ->
              LET checks == Library_create_checks(
                                Library_check_key_exists(store, in.key), in)
              IN  IF checks # "ok" THEN Finish(p, checks)
                  ELSE procs' = [procs EXCEPT ![p].pc = "insert"]
                       /\ UNCHANGED response
         [] op = "Service.import_value_set" ->
              IF Repository_check_key_exists(store, in.key)
              THEN Finish(p, "DuplicateKey")
              ELSE procs' = [procs EXCEPT ![p].pc = "insert"]
                   /\ UNCHANGED response
         [] op = "Library.import_value_set" ->
              IF Library_validate_value_set(in) # {}
              THEN Finish(p, "ValidationFailed")
              ELSE LET checks == Library_create_checks(
                                    Library_check_key_exists(store, in.key), in)
                   IN  IF checks # "ok" THEN Finish(p, checks)
                       ELSE procs' = [procs EXCEPT ![p].pc = "insert"]
                            /\ UNCHANGED response
         [] op = "Library.bulk_create_value_sets" ->
              IF Library_check_key_exists(store, in.key)
              THEN Advance(p, <<>>)
              ELSE procs' = [procs EXCEPT ![p].pc = "recheck"]
                   /\ UNCHANGED response
         [] op = "Service.bulk_import_value_sets" ->
              IF \/ Repository_check_key_exists(store, in.key)
                 \/ HasDuplicates(CodesOf(in.items))
              THEN Advance(p, procs[p].documents)
              ELSE Advance(p, Append(procs[p].documents, NewDocument(in)))

\* bulk_create_value_sets calls create_value_set, which checks the key again
Recheck(p) ==
    LET in == procs[p].value_sets[procs[p].i] IN
    /\ procs[p].pc = "recheck"
    /\ UNCHANGED store
    /\ IF Library_create_checks(Library_check_key_exists(store, in.key), in) # "ok"
       THEN Advance(p, <<>>)
       ELSE procs' = [procs EXCEPT ![p].pc = "insert"] /\ UNCHANGED response

\* await insert_one(document)
Insert(p) ==
    LET op == procs[p].op
        in == procs[p].value_sets[procs[p].i]
        document ==
            CASE op = "Service.import_value_set" ->
                    ImportDocument(in, in.createdBy)
              [] op = "Library.import_value_set" ->
                    NewDocument(ImportArguments(in, in.createdBy))
              [] OTHER -> NewDocument(in)
    IN
    /\ procs[p].pc = "insert"
    /\ Len(store) < MaxDocs
    /\ store' = (CASE op = "Service.create_value_set" ->
                        Repository_create(store, document)
                   [] op = "Service.import_value_set" ->
                        Repository_import_value_set(store, document)
                   [] OTHER -> InsertOne(store, document))
    /\ IF op \in BulkOps THEN Advance(p, <<>>) ELSE Finish(p, "ok")

\* repository.bulk_create: await insert_many(documents, ordered=False)
Repository_bulk_create(p) ==
    /\ procs[p].pc = "insert_many"
    /\ Len(store) + Len(procs[p].documents) <= MaxDocs
    /\ store' = InsertMany(store, procs[p].documents)
    /\ Finish(p, "ok")

NextConc ==
    \E p \in Procs :
        \/ Submit(p)
        \/ CheckKey(p)
        \/ Recheck(p)
        \/ Insert(p)
        \/ Repository_bulk_create(p)

SpecConc == Init /\ [][NextConc]_vars

----------------------------------------------------------------------------
(* Item specification: item requests on stored value sets run as           *)
(* coroutines of one event loop; a request gives way to the others at      *)
(* every await on the collection, so its reads and writes interleave.      *)

ItemKeys == {"k1", "k2"}

\* the request that created a stored value set with the one item A
SeedInput(key) ==
    [key |-> key, status |-> "active", module |-> "Core", description |-> NULL,
     items |-> Prefix(1), createdBy |-> "alice", createdAt |-> "t0"]

\* the collection after both value sets were created
SeededStore ==
    Service_create_value_set(
        Service_create_value_set(<<>>, SeedInput("k1")).store,
        SeedInput("k2")).store

ItemIdle ==
    [pc |-> "idle", op |-> "none", key |-> NULL, code |-> NULL, new |-> NULL,
     items |-> <<>>]

\* requests that read the value set before they write it
ReadingOps ==
    {"Service.add_item_to_value_set", "Library.add_item_to_value_set",
     "Service.replace_value_in_item", "Library.replace_item_code",
     "Service.update_item_in_value_set", "Service.archive_value_set",
     "Service.restore_value_set"}

\* requests that are a single call of the collection
WritingOps ==
    {"Library.remove_item_from_value_set", "Service.update_value_set",
     "Service.bulk_add_items"}

\* a value set takes new requests for items while it is within the limit
Accepting(s, r) ==
    r.code # CodeNames[2] \/ Len(Repository_get_items_by_key(s, r.key)) < ItemLimit

\* the requests that race on the items of one value set
ItemRequests ==
    [op : {"Service.add_item_to_value_set", "Library.add_item_to_value_set",
           "Library.remove_item_from_value_set"},
     key : {"k1"}, code : {CodeNames[2]}, new : {NULL}]
    \cup [op : {"Service.replace_value_in_item", "Library.replace_item_code"},
          key : {"k1"}, code : {CodeNames[1]}, new : {CodeNames[3]}]

\* the requests that change one value set, sent for either key
KeyRequests ==
    [op : {"Service.add_item_to_value_set", "Service.bulk_add_items",
           "Library.remove_item_from_value_set"},
     key : ItemKeys, code : {CodeNames[2]}, new : {NULL}]
    \cup [op : {"Service.replace_value_in_item"},
          key : ItemKeys, code : {CodeNames[1]}, new : {CodeNames[1]}]
    \cup [op : {"Service.update_item_in_value_set"},
          key : ItemKeys, code : {CodeNames[1]}, new : {NULL}]
    \cup [op : {"Service.update_value_set", "Service.archive_value_set",
                "Service.restore_value_set"},
          key : ItemKeys, code : {NULL}, new : {NULL}]

\* the update of the module that update_value_set is asked for
ModuleUpdate ==
    [status |-> NULL, description |-> NULL, module |-> "Core", items |-> <<>>,
     updatedBy |-> "bob", updatedAt |-> NULL]

\* what the handler of a request answers when nothing runs between its calls
Handled(s, r) ==
    CASE r.op = "Service.add_item_to_value_set" ->
            Service_add_item_to_value_set(s, r.key,
                MkItem(r.code, DefaultLabels), "bob")
      [] r.op = "Library.add_item_to_value_set" ->
            Library_add_item_to_value_set(s, r.key,
                MkItem(r.code, DefaultLabels), "bob")
      [] r.op = "Service.replace_value_in_item" ->
            Service_replace_value_in_item(s, r.key, r.code, r.new, <<>>, "bob")
      [] r.op = "Library.replace_item_code" ->
            Library_replace_item_code(s, r.key, r.code, r.new, <<>>, "bob")
      [] r.op = "Service.update_item_in_value_set" ->
            Service_update_item_in_value_set(s, r.key, r.code,
                [code |-> NULL, en |-> NULL, hi |-> NULL], "bob")
      [] r.op = "Service.archive_value_set" ->
            Service_archive_value_set(s, r.key, "bob")
      [] r.op = "Service.restore_value_set" ->
            Service_restore_value_set(s, r.key, "bob")
      [] r.op = "Library.remove_item_from_value_set" ->
            Library_remove_item_from_value_set(s, r.key, r.code, "bob")
      [] r.op = "Service.update_value_set" ->
            Service_update_value_set(s, r.key, ModuleUpdate)
      [] r.op = "Service.bulk_add_items" ->
            Service_bulk_add_items(s, r.key,
                <<MkItem(r.code, DefaultLabels)>>, "bob")

\* the request returns or raises
ItemFinish(p, outcome) ==
    /\ procs' = [procs EXCEPT ![p] = ItemIdle]
    /\ response' = [op |-> procs[p].op, outcome |-> outcome]

\* a request on the items of "k1" arrives
ItemSubmit(p) ==
    /\ procs[p].pc = "idle"
    /\ \E r \in ItemRequests :
          /\ Accepting(store, r)
          /\ procs' = [procs EXCEPT ![p] =
                       [pc |-> IF r.op \in ReadingOps THEN "read" ELSE "write",
                        op |-> r.op, key |-> r.key, code |-> r.code,
                        new |-> r.new, items |-> <<>>]]
    /\ UNCHANGED <<store, response>>

\* a request on either value set arrives
KeySubmit(p) ==
    /\ procs[p].pc = "idle"
    /\ \E r \in KeyRequests :
          /\ Accepting(store, r)
          /\ procs' = [procs EXCEPT ![p] =
                       [pc |-> IF r.op \in ReadingOps THEN "read" ELSE "write",
                        op |-> r.op, key |-> r.key, code |-> r.code,
                        new |-> r.new, items |-> <<>>]]
    /\ UNCHANGED <<store, response>>

\* the items a replace request keeps from its read: the service the item it
\* will push, the library the whole list it will write
ItemsKept(s, r) ==
    LET doc == s[FindOne(s, r.key)] IN
    CASE r.op = "Service.replace_value_in_item" ->
            <<[code |-> r.new,
               labels |-> doc.items[FirstPos(doc.items, r.code)].labels]>>
      [] r.op = "Library.replace_item_code" ->
            Handled(s, r).store[FindOne(s, r.key)].items
      [] OTHER -> <<>>

\* the awaited read of the value set and the checks on what was read
ItemRead(p) ==
    LET r == procs[p]
        verdict == Handled(store, r).outcome
    IN
    /\ r.pc = "read"
    /\ IF verdict # "ok"
       THEN /\ ItemFinish(p, verdict)
            /\ UNCHANGED store
       ELSE /\ procs' = [procs EXCEPT ![p] =
                    [r EXCEPT !.pc = IF r.op = "Service.replace_value_in_item"
                                     THEN "pull"
                                     ELSE IF r.op \in
                                            {"Service.add_item_to_value_set",
                                             "Library.add_item_to_value_set"}
                                     THEN "push" ELSE "write",
                              !.items = ItemsKept(store, r)]]
            /\ UNCHANGED <<store, response>>

\* replace_item_value as one call that pulls and pushes
ItemPull_atomic(p) ==
    LET r == procs[p] IN
    /\ r.pc = "pull"
    /\ store' = Repository_replace_item_value(store, r.key, r.code,
                    r.items[1], AuditFields("bob"))
    /\ ItemFinish(p, IF FindOne(store, r.key) = 0 THEN "NotFound" ELSE "ok")

\* replace_item_value, first call: $pull of the old item
ItemPull(p) ==
    LET r == procs[p] IN
    /\ r.pc = "pull"
    /\ IF FindOne(store, r.key) = 0
       THEN /\ ItemFinish(p, "NotFound")
            /\ UNCHANGED store
       ELSE /\ store' = FindOneAndUpdate(store, r.key,
                            PullItems(store[FindOne(store, r.key)], r.code))
            /\ procs' = [procs EXCEPT ![p] = [r EXCEPT !.pc = "push"]]
            /\ UNCHANGED response

\* add_item, and replace_item_value's second call: $push with the audit $set
ItemPush(p) ==
    LET r == procs[p]
        new_item == IF r.op = "Service.replace_value_in_item"
                    THEN r.items[1] ELSE MkItem(r.code, DefaultLabels)
    IN
    /\ r.pc = "push"
    /\ store' = Repository_add_item(store, r.key, new_item, AuditFields("bob"))
    /\ ItemFinish(p, IF FindOne(store, r.key) = 0 THEN "NotFound" ELSE "ok")

\* the write of a request that writes with one call
ItemWrite(p) ==
    LET r == procs[p]
        doc == store[FindOne(store, r.key)]
    IN
    /\ r.pc = "write"
    /\ store' =
         CASE r.op = "Library.replace_item_code" ->
                FindOneAndUpdate(store, r.key,
                    SetFields(doc, [items |-> r.items] @@ AuditFields("bob")))
           [] r.op = "Service.update_item_in_value_set" ->
                Repository_update_item(store, r.key, r.code,
                    ItemUpdatesDict([code |-> NULL, en |-> NULL, hi |-> NULL]),
                    AuditFields("bob"))
           [] r.op = "Service.archive_value_set" ->
                Repository_archive(store, r.key, AuditFields("bob"))
           [] r.op = "Service.restore_value_set" ->
                Repository_restore(store, r.key, AuditFields("bob"))
           [] OTHER -> Handled(store, r).store
    /\ ItemFinish(p, IF r.op \in WritingOps THEN Handled(store, r).outcome
                     ELSE IF FindOne(store, r.key) = 0 THEN "NotFound"
                     ELSE "ok")

InitItems ==
    /\ store = SeededStore
    /\ response = [op |-> "none", outcome |-> "none"]
    /\ procs = [p \in Procs |-> ItemIdle]

NextItems ==
    \E p \in Procs :
        \/ ItemSubmit(p)
        \/ ItemRead(p)
        \/ ItemPull(p)
        \/ ItemPush(p)
        \/ ItemWrite(p)

SpecItems == InitItems /\ [][NextItems]_vars

NextKeys ==
    \E p \in Procs :
        \/ KeySubmit(p)
        \/ ItemRead(p)
        \/ ItemPull(p)
        \/ ItemPush(p)
        \/ ItemWrite(p)

SpecKeys == InitItems /\ [][NextKeys]_vars

---------------------------------------------------------------------------
(* Label specification: value sets are created and the labels of their     *)
(* items are updated                                                        *)

ServiceCreateLabels ==
    \E in \in EmptyLabelCreateInputs :
        LET r == Service_create_value_set(store, in) IN
        /\ ValueSetCreateSchema(in)
        /\ \A i \in 1..Len(in.items) : LabelSchema(in.items[i].labels)
        /\ store' = r.store
        /\ response' = [op |-> "Service.create_value_set", outcome |-> r.outcome]
        /\ UNCHANGED procs

ServiceUpdateItemLabels ==
    \E key \in Keys, code \in Codes, updates \in LabelUpdateInputs,
       by \in Updaters :
        LET r == Service_update_item_in_value_set(store, key, code, updates, by) IN
        /\ store' = r.store
        /\ response' = [op |-> "Service.update_item_in_value_set",
                        outcome |-> r.outcome]
        /\ UNCHANGED procs

LibraryUpdateItemLabels ==
    \E key \in Keys, code \in Codes, updates \in LabelUpdateInputs,
       by \in Updaters :
        LET r == Library_update_item_in_value_set(store, key, code,
                        LibraryItemUpdates(updates), by) IN
        /\ store' = r.store
        /\ response' = [op |-> "Library.update_item_in_value_set",
                        outcome |-> r.outcome]
        /\ UNCHANGED procs

NextLabels ==
    \/ ServiceCreate
    \/ ServiceCreateLabels
    \/ ServiceUpdateItemLabels
    \/ LibraryUpdateItemLabels

SpecLabels == Init /\ [][NextLabels]_vars

---------------------------------------------------------------------------
(* List specification: value sets are created under both keys, archived    *)
(* and listed                                                               *)

ServiceCreateListed ==
    \E in \in ListCreateInputs :
        LET r == Service_create_value_set(store, in) IN
        /\ ValueSetCreateSchema(in)
        /\ store' = r.store
        /\ response' = [op |-> "Service.create_value_set", outcome |-> r.outcome]
        /\ UNCHANGED procs

ServiceList ==
    \E q \in ListQueries :
        LET r == list_value_sets(store, q.status, q.module, q.skip, q.limit) IN
        /\ store' = store
        /\ response' = [op |-> "Service.list_value_sets", outcome |-> r.outcome,
                        total |-> r.total, returned |-> Len(r.items),
                        hasMore |-> r.hasMore]
        /\ UNCHANGED procs

\* the statistics read the collection; the answer tells whether the item
\* statistics came back empty
ServiceStatistics ==
    LET stats == Service_get_value_set_statistics(store) IN
    /\ store' = store
    /\ response' = [op |-> "Service.get_value_set_statistics",
                    outcome |-> IF DOMAIN stats.items_statistics = {}
                                THEN "empty" ELSE "ok",
                    total |-> stats.total_value_sets]
    /\ UNCHANGED procs

LibraryStatistics ==
    LET stats == Library_get_statistics(store) IN
    /\ store' = store
    /\ response' = [op |-> "Library.get_statistics", outcome |-> "ok",
                    total |-> stats.totalValueSets]
    /\ UNCHANGED procs

NextList ==
    \/ ServiceCreateListed
    \/ ServiceArchive
    \/ ServiceList
    \/ ServiceStatistics
    \/ LibraryStatistics

SpecList == Init /\ [][NextList]_vars

---------------------------------------------------------------------------
(* Properties *)

\* the items of the value set a request on the key addresses
ItemsAt(s, key) == s[FindOne(s, key)].items

\* create requests with any status, module, description and items
AnyCreateInputs ==
    [key : Keys, status : Statuses, module : {"Core", "HR"},
     description : {NULL, "d"}, items : ItemLists, createdBy : Creators,
     createdAt : {NULL, "t0"}]

\* C1: after any sequence of non-overlapping successful operations the item
\* codes of every stored value set are pairwise distinct
ItemCodesUnique ==
    \A i \in 1..Len(store) : ~HasDuplicates(CodesOf(store[i].items))

\* C2: after any sequence of non-overlapping successful operations every
\* stored value set has at least 1 and at most 500 (ItemLimit) items
ItemCountInRange ==
    \A i \in 1..Len(store) :
        1 <= Len(store[i].items) /\ Len(store[i].items) <= ItemLimit

\* C3: Create with a key that is already stored fails with a duplicate-key
\* error, whatever status, module or items are given, inserts no document
\* and leaves the stored documents as they are
CreateDuplicateKeyRejected ==
    \A in \in AnyCreateInputs :
        CountDocuments(store, in.key) > 0 =>
            /\ Service_create_value_set(store, in) = Result(store, "DuplicateKey")
            /\ Library_create_value_set(store, in) = Result(store, "DuplicateKey")

\* a Create was answered with a duplicate-key error while its key is stored
CreateDuplicateKeySeen ==
    /\ response.op \in {"Service.create_value_set", "Library.create_value_set"}
    /\ response.outcome = "DuplicateKey"
    /\ \E in \in CreateInputs : CountDocuments(store, in.key) = 1

\* C4: for any interleaving of concurrent Create, BulkCreate and Import
\* requests the store never holds two documents with the same key
KeyUnique ==
    \A i, j \in 1..Len(store) : store[i].key = store[j].key => i = j

\* the incoming items whose code is stored in the target value set already
BulkAddConflicts(s, key, items) ==
    /\ FindOne(s, key) # 0
    /\ Range(CodesOf(items)) \cap Range(CodesOf(ItemsAt(s, key))) # {}

\* the incoming items with the conflicting entries removed
WithoutConflicts(s, key, items) ==
    SelectSeq(items, LAMBDA it : it.code \notin Range(CodesOf(ItemsAt(s, key))))

\* C5 as stated: when an incoming item has a code that is stored already,
\* BulkAddItems appends nothing, and BulkAddItems called again with the
\* conflicting entries removed appends all remaining items
BulkAddAllOrNothing ==
    \A key \in Keys, items \in Batches, by \in Updaters :
        BulkAddConflicts(store, key, items) =>
            LET rest == WithoutConflicts(store, key, items) IN
            /\ Service_bulk_add_items(store, key, items, by).store = store
            /\ Library_bulk_add_items(store, key, items, by).store = store
            /\ ItemsAt(Service_bulk_add_items(store, key, rest, by).store, key)
                    = ItemsAt(store, key) \o rest
            /\ ItemsAt(Library_bulk_add_items(store, key, rest, by).store, key)
                    = ItemsAt(store, key) \o rest

\* C5: when an incoming item has a code that is stored already, BulkAddItems
\* appends nothing and leaves the store as it is; called again with the
\* conflicting entries removed it appends all remaining items, provided
\* their codes are pairwise distinct and the item count stays within 500
BulkAddAllOrNothingWithinLimit ==
    \A key \in Keys, items \in Batches, by \in Updaters :
        BulkAddConflicts(store, key, items) =>
            LET rest == WithoutConflicts(store, key, items) IN
            /\ Service_bulk_add_items(store, key, items, by).store = store
            /\ Library_bulk_add_items(store, key, items, by).store = store
            /\ (/\ ~HasDuplicates(CodesOf(rest))
                /\ Len(ItemsAt(store, key)) + Len(rest) <= ItemLimit)
               => /\ ItemsAt(Service_bulk_add_items(store, key, rest, by).store,
                             key) = ItemsAt(store, key) \o rest
                  /\ ItemsAt(Library_bulk_add_items(store, key, rest, by).store,
                             key) = ItemsAt(store, key) \o rest

\* a BulkAddItems was rejected for a stored code, and a batch with a stored
\* code has remaining items that fit
BulkAddConflictSeen ==
    /\ response.op \in {"Service.bulk_add_items", "Library.bulk_add_items"}
    /\ response.outcome = "DuplicateItemCode"
    /\ \E key \in Keys, items \in Batches :
        /\ BulkAddConflicts(store, key, items)
        /\ WithoutConflicts(store, key, items) # <<>>
        /\ Len(ItemsAt(store, key)) + Len(WithoutConflicts(store, key, items))
                <= ItemLimit

\* C6: BulkAddItems rejects, appending nothing, every batch holding two
\* items with the same code and every batch whose size plus the current
\* item count exceeds 500
BulkAddRejectsBadBatch ==
    \A key \in Keys, items \in Batches, by \in Updaters :
        (/\ FindOne(store, key) # 0
         /\ \/ HasDuplicates(CodesOf(items))
            \/ Len(ItemsAt(store, key)) + Len(items) > ItemLimit)
        => /\ Service_bulk_add_items(store, key, items, by).outcome # "ok"
           /\ Service_bulk_add_items(store, key, items, by).store = store
           /\ Library_bulk_add_items(store, key, items, by).outcome # "ok"
           /\ Library_bulk_add_items(store, key, items, by).store = store

\* the item's code is the code of an item of the stored value set
CodePresent(s, key, code) ==
    /\ FindOne(s, key) # 0
    /\ code \in Range(CodesOf(ItemsAt(s, key)))

\* C7: AddItem with a code that is present in the target value set fails
\* with a duplicate-item-code error and leaves the value set unchanged:
\* same items, updatedAt and updatedBy not refreshed
AddItemDuplicateRejected ==
    \A key \in Keys, item \in ItemInputs, by \in Updaters :
        CodePresent(store, key, item.code) =>
            /\ Service_add_item_to_value_set(store, key, item, by)
                    = Result(store, "DuplicateItemCode")
            /\ Library_add_item_to_value_set(store, key, item, by)
                    = Result(store, "DuplicateItemCode")

\* an AddItem was answered with a duplicate-item-code error
AddItemDuplicateSeen ==
    /\ response.op \in {"Service.add_item_to_value_set",
                        "Library.add_item_to_value_set"}
    /\ response.outcome = "DuplicateItemCode"
    /\ \E key \in Keys, item \in ItemInputs : CodePresent(store, key, item.code)

\* C8: AddItem of a new code on a value set that holds 500 items fails with
\* an item-limit error and leaves the value set unchanged
AddItemAtLimitRejected ==
    \A key \in Keys, item \in ItemInputs, by \in Updaters :
        (/\ FindOne(store, key) # 0
         /\ Len(ItemsAt(store, key)) = ItemLimit
         /\ ~CodePresent(store, key, item.code))
        => /\ Service_add_item_to_value_set(store, key, item, by)
                = Result(store, "ItemLimitExceeded")
           /\ Library_add_item_to_value_set(store, key, item, by)
                = Result(store, "ItemLimitExceeded")

\* the answer r of an AddItem of item on key, when it succeeded, holds the
\* stored items followed by item, and updatedAt and updatedBy are set
AppendedLast(r, key, item) ==
    r.outcome = "ok" =>
        /\ ItemsAt(r.store, key) = ItemsAt(store, key) \o <<item>>
        /\ r.store[FindOne(r.store, key)].updatedAt # NULL
        /\ r.store[FindOne(r.store, key)].updatedBy # NULL

\* C9: a successful AddItem appends the new item as the last element of the
\* items, leaves the stored items and their order unchanged and sets
\* updatedAt and updatedBy to non-null values
AddItemAppendsLast ==
    \A key \in Keys, item \in ItemInputs, by \in Updaters :
        /\ AppendedLast(Service_add_item_to_value_set(store, key, item, by),
                        key, item)
        /\ AppendedLast(Library_add_item_to_value_set(store, key, item, by),
                        key, item)

\* an AddItem succeeded: the value set holds items and its audit fields are set
AddItemSucceeded ==
    /\ response.op \in {"Service.add_item_to_value_set",
                        "Library.add_item_to_value_set"}
    /\ response.outcome = "ok"
    /\ \E i \in 1..Len(store) :
        /\ store[i].items # <<>>
        /\ store[i].updatedAt = Now
        /\ store[i].updatedBy \in Updaters

\* C10: Archive of an archived value set reports already-archived, Restore
\* of an active value set reports already-active, both on an absent key
\* report not-found, and in all these cases the store is left unchanged
ArchiveRestoreGuards ==
    \A key \in Keys, by \in Updaters :
        LET idx == FindOne(store, key) IN
        /\ idx = 0 =>
            /\ Service_archive_value_set(store, key, by) = Result(store, "NotFound")
            /\ Service_restore_value_set(store, key, by) = Result(store, "NotFound")
            /\ Library_archive_value_set(store, key, by) = Result(store, "NotFound")
            /\ Library_restore_value_set(store, key, by) = Result(store, "NotFound")
        /\ (idx # 0 /\ store[idx].status = "archived") =>
            /\ Service_archive_value_set(store, key, by)
                    = Result(store, "AlreadyArchived")
            /\ Library_archive_value_set(store, key, by)
                    = Result(store, "AlreadyArchived")
        /\ (idx # 0 /\ store[idx].status = "active") =>
            /\ Service_restore_value_set(store, key, by)
                    = Result(store, "AlreadyActive")
            /\ Library_restore_value_set(store, key, by)
                    = Result(store, "AlreadyActive")

\* the status of every stored value set, in collection order
StatusesOf(s) == [i \in 1..Len(s) |-> s[i].status]

\* the stores the item operations lead to from the current store
ItemOperationStores ==
    {Service_add_item_to_value_set(store, key, item, by).store :
        key \in Keys, item \in ItemInputs, by \in Updaters}
    \cup {Library_add_item_to_value_set(store, key, item, by).store :
        key \in Keys, item \in ItemInputs, by \in Updaters}
    \cup {Service_bulk_add_items(store, key, items, by).store :
        key \in Keys, items \in Batches, by \in Updaters}
    \cup {Library_bulk_add_items(store, key, items, by).store :
        key \in Keys, items \in Batches, by \in Updaters}
    \cup {Service_update_item_in_value_set(store, key, code, u, by).store :
        key \in Keys, code \in Codes, u \in ItemUpdateInputs, by \in Updaters}
    \cup {Library_update_item_in_value_set(store, key, code,
                                           LibraryItemUpdates(u), by).store :
        key \in Keys, code \in Codes, u \in ItemUpdateInputs, by \in Updaters}
    \cup {Service_bulk_update_items(store, itemUpdates).store :
        itemUpdates \in {u \in BulkItemUpdateInputs : BulkItemUpdateSchema(u)}}
    \cup {Service_replace_value_in_item(store, key, old, new, <<>>, by).store :
        key \in Keys, old \in Codes, new \in Codes, by \in Updaters}
    \cup {Library_replace_item_code(store, key, old, new, <<>>, by).store :
        key \in Keys, old \in Codes, new \in Codes, by \in Updaters}
    \cup {Library_remove_item_from_value_set(store, key, code, by).store :
        key \in Keys, code \in Codes, by \in Updaters}

\* the stores UpdateValueSet and BulkUpdateValueSets lead to from the current
\* store, for the given requests
UpdateOperationStores(inputs, dicts, bulk) ==
    {Service_update_value_set(store, key, u).store :
        key \in Keys, u \in {v \in inputs : ValueSetUpdateSchema(v)}}
    \cup {Library_update_value_set(store, key, d, by, NULL).store :
        key \in Keys, d \in dicts, by \in Updaters}
    \cup {Service_bulk_update_value_sets(store, b, by).store :
        b \in bulk, by \in Updaters}
    \cup {Library_bulk_update_value_sets(store, b, by).store :
        b \in bulk, by \in Updaters}

\* C11 as stated: no operation other than Archive, Restore and BulkArchive
\* changes the status of a stored value set
StatusChangedOnlyByArchiveRestore ==
    \A s \in ItemOperationStores
                \cup UpdateOperationStores(UpdateInputs, UpdateDicts,
                                           BulkUpdateInputs) :
        StatusesOf(s) = StatusesOf(store)

\* C11: the status of a stored value set changes only in Archive, Restore,
\* BulkArchive, or an UpdateValueSet / BulkUpdateValueSets that supplies a
\* status; the item operations and the updates without a status keep it
StatusKeptWithoutStatusUpdate ==
    \A s \in ItemOperationStores
                \cup UpdateOperationStores(
                        {u \in UpdateInputs : u.status = NULL},
                        {d \in UpdateDicts : "status" \notin DOMAIN d},
                        {b \in BulkUpdateInputs :
                            \A i \in 1..Len(b) : b[i].status = NULL}) :
        StatusesOf(s) = StatusesOf(store)

\* an item operation succeeded on a value set that is archived
ItemOperationOnArchivedSeen ==
    /\ response.op \in {"Service.add_item_to_value_set",
                        "Library.add_item_to_value_set",
                        "Service.update_item_in_value_set",
                        "Library.remove_item_from_value_set"}
    /\ response.outcome = "ok"
    /\ \E i \in 1..Len(store) :
        /\ store[i].status = "archived"
        /\ store[i].updatedAt = Now

\* value set i of store t is value set i of the current store in every field
\* but updatedAt and updatedBy
SameButAudit(t, i) ==
    [t[i] EXCEPT !.updatedAt = store[i].updatedAt,
                 !.updatedBy = store[i].updatedBy] = store[i]

\* the answers archived and restored of an Archive and of the Restore after
\* it: both succeeded and only updatedAt and updatedBy differ from before
RoundTrip(key, archived, restored) ==
    /\ archived.outcome = "ok"
    /\ archived.store[FindOne(store, key)].status = "archived"
    /\ restored.outcome = "ok"
    /\ restored.store[FindOne(store, key)].status = "active"
    /\ Len(restored.store) = Len(store)
    /\ \A i \in 1..Len(store) : SameButAudit(restored.store, i)

\* C12: Archive followed by Restore on an active value set both succeed,
\* return the status to active and leave items, key, module, description,
\* createdAt and createdBy as before; only updatedAt and updatedBy differ
ArchiveRestoreRoundTrip ==
    \A key \in Keys, by \in Updaters :
        (/\ FindOne(store, key) # 0
         /\ store[FindOne(store, key)].status = "active")
        => /\ RoundTrip(key,
                Service_archive_value_set(store, key, by),
                Service_restore_value_set(
                    Service_archive_value_set(store, key, by).store, key, by))
           /\ RoundTrip(key,
                Library_archive_value_set(store, key, by),
                Library_restore_value_set(
                    Library_archive_value_set(store, key, by).store, key, by))

\* a Restore succeeded and left an active value set with refreshed audit fields
RestoreSucceeded ==
    /\ response.op \in {"Service.restore_value_set", "Library.restore_value_set"}
    /\ response.outcome = "ok"
    /\ \E i \in 1..Len(store) :
        /\ store[i].status = "active"
        /\ store[i].items # <<>>
        /\ store[i].updatedAt = Now

\* value set `new` of store t has the module, description and items of
\* value set `key` of the current store
SameContent(t, new, key) ==
    /\ FindOne(t, new) # 0
    /\ t[FindOne(t, new)].module = store[FindOne(store, key)].module
    /\ t[FindOne(t, new)].description = store[FindOne(store, key)].description
    /\ t[FindOne(t, new)].items = store[FindOne(store, key)].items

\* the exported payload with its key changed to new
Rekeyed(payload, new) == [payload EXCEPT !.key = new]

\* C13: for every stored value set, Import of the payload of Export with
\* only its key changed to an unused key succeeds and stores a value set
\* with the module, description and items of the exported one
ExportImportRoundTrip ==
    \A key \in Keys, new \in Keys, by \in Creators :
        (FindOne(store, key) # 0 /\ FindOne(store, new) = 0) =>
            LET service ==
                    Service_import_value_set(store,
                        Rekeyed(Service_export_value_set(store, key).payload,
                                new), by)
                library ==
                    Library_import_value_set(store,
                        Rekeyed(JsonLoads(
                            Library_export_value_set(store, key).payload),
                                new), by)
            IN  /\ service.outcome = "ok"
                /\ SameContent(service.store, new, key)
                /\ library.outcome = "ok"
                /\ SameContent(library.store, new, key)

\* every language of the update is overwritten, every other language keeps
\* the value it had
LabelsMerged(before, after, updates) ==
    \A lang \in {"en", "hi"} :
        Get(after, lang) = IF updates[lang] # NULL THEN updates[lang]
                           ELSE Get(before, lang)

\* C14: a successful UpdateItem with a labels update leaves the matched item
\* with the given languages overwritten and the languages not given as they
\* were
UpdateItemMergesLabels ==
    \A key \in Keys, code \in Codes, updates \in LabelUpdateInputs,
       by \in Updaters :
        LET idx == FindOneWithItem(store, key, code)
            pos == FirstPos(store[idx].items, code)
            service == Service_update_item_in_value_set(store, key, code,
                            updates, by)
            library == Library_update_item_in_value_set(store, key, code,
                            LibraryItemUpdates(updates), by)
        IN  idx # 0 =>
                /\ service.outcome = "ok" =>
                        LabelsMerged(store[idx].items[pos].labels,
                                     service.store[idx].items[pos].labels,
                                     updates)
                /\ library.outcome = "ok" =>
                        LabelsMerged(store[idx].items[pos].labels,
                                     library.store[idx].items[pos].labels,
                                     updates)

\* newLabels of a ReplaceItemCodeSchema: absent, or a LabelSchema
NewLabelInputs == {<<>>, [en |-> "x", hi |-> NULL]}

\* the positions of the items that carry the code
PositionsOf(items, code) == {j \in 1..Len(items) : items[j].code = code}

\* what ReplaceItemCode owes on the items `before` of the addressed value set
ReplaceContract(before, after, r, old, new, newLabels) ==
    IF PositionsOf(before, old) = {}
    THEN r.outcome = "ItemNotFound" /\ r.store = store
    ELSE IF new # old /\ PositionsOf(before, new) # {}
    THEN r.outcome = "DuplicateItemCode" /\ r.store = store
    ELSE /\ r.outcome = "ok"
         /\ Cardinality(PositionsOf(after, new)) = 1
         /\ new # old => PositionsOf(after, old) = {}
         /\ Len(after) = Len(before)
         /\ \A j \in PositionsOf(after, new) :
                after[j].labels =
                    IF DOMAIN newLabels # {} THEN newLabels
                    ELSE before[FirstPos(before, old)].labels

\* C15: ReplaceItemCode fails with not-found and changes nothing when no item
\* has oldCode, fails with duplicate-item-code and changes nothing when
\* newCode differs from oldCode and is in use, and otherwise leaves exactly
\* one item with newCode, none with oldCode, the same number of items, and
\* on that item newLabels if given, else the labels of the old item
ReplaceItemCodeContract ==
    \A key \in Keys, old \in Codes, new \in Codes,
       newLabels \in NewLabelInputs, by \in Updaters :
        LET idx == FindOne(store, key)
            service == Service_replace_value_in_item(store, key, old, new,
                            newLabels, by)
            library == Library_replace_item_code(store, key, old, new,
                            newLabels, by)
        IN  idx # 0 =>
                /\ ReplaceContract(store[idx].items, service.store[idx].items,
                                   service, old, new, newLabels)
                /\ ReplaceContract(store[idx].items, library.store[idx].items,
                                   library, old, new, newLabels)

\* C16: every item of every stored value set has an English label that is
\* present and not empty
EnglishLabelPresent ==
    \A i \in 1..Len(store) :
        \A j \in 1..Len(store[i].items) :
            Get(store[i].items[j].labels, "en") \notin {NULL, ""}

\* C17: a step of Validate, on a valid or an invalid draft, with a key that
\* exists or not, leaves the store as it was: no document is inserted,
\* changed or removed
ValidateKeepsStore ==
    [][response'.op \in {"Service.validate_value_set",
                         "Library.validate_value_set"}
            => store' = store]_vars

\* a Validate has run against a store that holds the key "k1"
ValidateSeen ==
    /\ response.op \in {"Service.validate_value_set",
                        "Library.validate_value_set"}
    /\ FindOne(store, "k1") # 0

\* a payload with duplicate item codes, an item count outside 1..500, an
\* item without an English label or an invalid status
InvalidPayload(in) ==
    \/ HasDuplicates(CodesOf(in.items))
    \/ ~(1 <= Len(in.items) /\ Len(in.items) <= ItemLimit)
    \/ \E i \in 1..Len(in.items) :
            Get(in.items[i].labels, "en") \in {NULL, ""}
    \/ in.status \notin {"active", "archived"}

\* C18: Import of an invalid payload, or of a payload whose key already
\* exists, is rejected with an error and leaves the store unchanged
ImportRejectsInvalid ==
    \A in \in CreateInputs, by \in Creators :
        (InvalidPayload(in) \/ FindOne(store, in.key) # 0) =>
            LET service == Service_import_value_set(store, in, by)
                library == Library_import_value_set(store, in, by)
            IN  /\ service.outcome # "ok" /\ service.store = store
                /\ library.outcome # "ok" /\ library.store = store

\* how often the key is recorded in a list of keys
CountIn(keys, key) == Cardinality({j \in 1..Len(keys) : keys[j] = key})

\* what BulkCreate owes for the inputs that carry the key: with the key in
\* the store all are skipped (or failed); otherwise the inputs before the
\* first valid one fail, that one is created, and the later ones find the
\* key in the store
BulkCreateRecords(value_sets, key, skip_existing) ==
    LET inputs == {i \in 1..Len(value_sets) : value_sets[i].key = key}
        valid == {i \in inputs : ValueSetCreateSchema(value_sets[i])}
        first == First(valid)
        late == IF FindOne(store, key) # 0 THEN inputs
                ELSE {i \in inputs : first # 0 /\ i > first}
        early == inputs \ (late \cup {first})
    IN  [created |-> IF FindOne(store, key) = 0 /\ first # 0 THEN 1 ELSE 0,
         failed |-> Cardinality(early)
                        + (IF skip_existing THEN 0 ELSE Cardinality(late)),
         skipped |-> IF skip_existing THEN Cardinality(late) ELSE 0]

\* the documents of the store are in t as they were
DocumentsKept(t) ==
    /\ Len(t) >= Len(store)
    /\ \A i \in 1..Len(store) : t[i] = store[i]

\* the first valid input of a key that is not in the store is stored in t
ValidInputsCreated(t, value_sets) ==
    \A i \in 1..Len(value_sets) :
        (/\ FindOne(store, value_sets[i].key) = 0
         /\ ValueSetCreateSchema(value_sets[i])
         /\ \A j \in 1..(i - 1) :
                value_sets[j].key = value_sets[i].key
                    => ~ValueSetCreateSchema(value_sets[j]))
        => /\ FindOne(t, value_sets[i].key) # 0
           /\ t[FindOne(t, value_sets[i].key)].items = value_sets[i].items

\* C19: BulkCreate records every input in exactly one of created, failed and
\* skipped; an input whose key exists when it is processed is skipped when
\* skip_existing is true and failed when it is false, and the stored
\* documents stay as they were; an invalid or failing input does not keep a
\* later valid input from being created
BulkCreateIndependent ==
    \A value_sets \in BulkCreateInputs, skip_existing \in BOOLEAN :
        LET library == Library_bulk_create_value_sets(store, value_sets,
                            skip_existing)
            service == Service_bulk_import_value_sets(store, value_sets)
        IN  /\ Len(library.created) + Len(library.failed)
                    + Len(library.skipped) = Len(value_sets)
            /\ \A key \in Keys :
                    LET owed == BulkCreateRecords(value_sets, key, skip_existing)
                    IN  /\ CountIn(library.created, key) = owed.created
                        /\ CountIn(library.failed, key) = owed.failed
                        /\ CountIn(library.skipped, key) = owed.skipped
            /\ DocumentsKept(library.store)
            /\ ValidInputsCreated(library.store, value_sets)
            /\ (/\ BulkValueSetCreateSchema(value_sets)
                /\ \A i \in 1..Len(value_sets) :
                        ValueSetCreateSchema(value_sets[i]))
               => /\ service.successful + service.failed = Len(value_sets)
                  /\ \A key \in Keys :
                        CountIn(service.processedKeys, key) =
                            BulkCreateRecords(value_sets, key, FALSE).created
                  /\ DocumentsKept(service.store)
                  /\ ValidInputsCreated(service.store, value_sets)

\* a BulkCreate recorded a failed input and created a later one
BulkCreateFailedThenCreated ==
    /\ response.op = "Library.bulk_create_value_sets"
    /\ response.failed # <<>>
    /\ response.created # <<>>
    /\ FindOne(store, "k1") # 0

\* the stored value sets that match the filter {status?, module?}
MatchingFilter(status, module) ==
    {i \in 1..Len(store) :
        /\ status # NULL => store[i].status = status
        /\ module # NULL => store[i].module = module}

\* what List owes for the query on the current store
PageContract(r, status, module, skip, limit) ==
    LET total == Cardinality(MatchingFilter(status, module))
        rest == IF total - skip > 0 THEN total - skip ELSE 0
    IN  /\ r.outcome = "ok"
        /\ r.total = total
        /\ Len(r.items) = IF limit < rest THEN limit ELSE rest
        /\ \A j \in 1..Len(r.items) :
                \E i \in MatchingFilter(status, module) :
                    r.items[j].id = store[i].id
        /\ \A j, k \in 1..Len(r.items) :
                r.items[j].id = r.items[k].id => j = k
        /\ r.hasMore = (skip + limit < total)

FieldIs(dict, field, n) == field \in DOMAIN dict /\ dict[field] = n

\* C21: GetStatistics reports as total the number of stored documents, which
\* is the sum of its per-status counts and of its per-module counts, and as
\* total items the sum of the item counts; on an empty store the total is
\* 0, the per-status and per-module maps are empty and the item statistics
\* total, avg, min and max are zero
StatisticsMatchStore ==
    LET service == Service_get_value_set_statistics(store)
        library == Library_get_statistics(store)
    IN  /\ service.total_value_sets = Len(store)
        /\ SumValues(service.by_status) = Len(store)
        /\ SumValues(service.by_module) = Len(store)
        /\ FieldIs(service.items_statistics, "total_items", SumItems(store))
        /\ library.totalValueSets = Len(store)
        /\ SumValues(library.statusCounts) = Len(store)
        /\ SumValues(library.moduleCounts) = Len(store)
        /\ library.totalItems = SumItems(store)
        /\ store = <<>> =>
                /\ DOMAIN service.by_status = {}
                /\ DOMAIN service.by_module = {}
                /\ \A f \in {"total_items", "avg_items", "min_items",
                               "max_items"} :
                        FieldIs(service.items_statistics, f, 0)
                /\ DOMAIN library.statusCounts = {}
                /\ DOMAIN library.moduleCounts = {}
                /\ library.averageItemsPerSet = 0

\* the fields a value set gets when it is created
CreationFields(doc) ==
    [key |-> doc.key, id |-> doc.id, createdAt |-> doc.createdAt,
     createdBy |-> doc.createdBy]

ActingKey(p) ==
    IF procs[p].pc = "idle" THEN procs'[p].key ELSE procs[p].key

\* C23: every step of an AddItem, BulkAddItems, UpdateItem, ReplaceItemCode,
\* RemoveItem, UpdateValueSet, Archive or Restore request on key k, whatever
\* other requests run between its steps, leaves every document with
\* another key as it was, and adds or removes no document
OtherKeysUnchanged ==
    [][\A p \in Procs :
        procs'[p] # procs[p] =>
            /\ Len(store') = Len(store)
            /\ \A i \in 1..Len(store) :
                  store[i].key # ActingKey(p) => store'[i] = store[i]]_vars

\* a request on "k1" has answered ok and the document of "k1" is changed,
\* the document of "k2" is as it was created, and a request on "k2" is
\* between its read and its write
ChangedBesideRequest ==
    /\ response.outcome = "ok"
    /\ store[FindOne(store, "k1")] # SeededStore[FindOne(SeededStore, "k1")]
    /\ store[FindOne(store, "k2")] = SeededStore[FindOne(SeededStore, "k2")]
    /\ \E p \in Procs :
          /\ procs[p].key = "k2"
          /\ procs[p].pc \in {"pull", "push", "write"}

\* the request of process p is an AddItem that passed its checks
AddChecked(p) ==
    /\ procs[p].pc = "push"
    /\ procs[p].op \in {"Service.add_item_to_value_set",
                        "Library.add_item_to_value_set"}

\* C24: an AddItem that passed the duplicate check on its read writes with
\* a plain $push: whatever the other requests stored in between, its code
\* is stored once more and it answers ok, so two AddItem requests for one
\* key and code that both read before either writes both succeed and the
\* code is stored twice
AddItemRace ==
    [][\A p \in Procs :
        AddChecked(p) /\ procs'[p] # procs[p] =>
            /\ response'.outcome = "ok"
            /\ Cardinality(PositionsOf(ItemsAt(store', procs[p].key),
                                       procs[p].code))
                 = Cardinality(PositionsOf(ItemsAt(store, procs[p].key),
                                           procs[p].code)) + 1]_vars

\* both AddItem requests have answered, the last one ok, and the value set
\* holds the code twice
AddedTwice ==
    /\ \A p \in Procs : procs[p].pc = "idle"
    /\ response.op = "Service.add_item_to_value_set"
    /\ response.outcome = "ok"
    /\ Cardinality(PositionsOf(ItemsAt(store, "k1"), CodeNames[2])) = 2

\* the number of items that carry the code
CodeCount(items, code) == Cardinality(PositionsOf(items, code))

ReplaceCompletes(p) ==
    /\ procs[p].op \in {"Service.replace_value_in_item",
                        "Library.replace_item_code"}
    /\ procs[p].pc \in {"push", "write"}
    /\ procs'[p] # procs[p]

\* C30: the write that completes a ReplaceItemCode keeps every item that
\* carries neither oldCode nor newCode, so an item that an AddItem appended
\* after the replace read the value set is still stored when the replace
\* completes
ReplaceKeepsOtherItems ==
    [][\A p \in Procs :
        ReplaceCompletes(p) =>
            \A c \in Codes \ {procs[p].code, procs[p].new} :
                CodeCount(ItemsAt(store', procs[p].key), c)
                    = CodeCount(ItemsAt(store, procs[p].key), c)]_vars

\* the same for the replace of the service, which pulls and pushes on the
\* stored items
ServiceReplaceKeepsOtherItems ==
    [][\A p \in Procs :
        ReplaceCompletes(p) /\ procs[p].op = "Service.replace_value_in_item"
            => \A c \in Codes \ {procs[p].code, procs[p].new} :
                CodeCount(ItemsAt(store', procs[p].key), c)
                    = CodeCount(ItemsAt(store, procs[p].key), c)]_vars

\* the positions of the updates whose key is stored
ExistingUpdates(updates) ==
    {i \in 1..Len(updates) : FindOne(store, updates[i].key) # 0}

\* every update on a stored key is applied to its value set
UpdatesApplied(after, updates, by) ==
    \A i \in ExistingUpdates(updates) :
        LET doc == after[FindOne(after, updates[i].key)] IN
        /\ doc.updatedAt = Now
        /\ doc.updatedBy = by
        /\ updates[i].status # NULL => doc.status = updates[i].status

\* the library's BulkUpdateValueSets lists the stored keys as updated and
\* the missing keys as failed, and applies the updates of the stored keys
LibraryBulkUpdateReport ==
    \A updates \in BulkUpdateInputs, by \in Updaters :
        LET r == Library_bulk_update_value_sets(store, updates, by) IN
        /\ Len(r.updated) = Cardinality(ExistingUpdates(updates))
        /\ Len(r.failed) = Len(updates) - Cardinality(ExistingUpdates(updates))
        /\ Range(r.updated)
             = {updates[i].key : i \in ExistingUpdates(updates)}
        /\ UpdatesApplied(r.store, updates, by)

\* C27: BulkUpdateValueSets on updates with distinct keys reports successful
\* as the number of updates whose key is stored, failed as the number whose
\* key is missing and processedKeys as exactly the keys that were updated,
\* and applies the update of every stored key whatever keys are missing
BulkUpdateReport ==
    /\ LibraryBulkUpdateReport
    /\ \A updates \in BulkUpdateInputs, by \in Updaters :
        LET r == Service_bulk_update_value_sets(store, updates, by) IN
        /\ r.successful = Cardinality(ExistingUpdates(updates))
        /\ r.failed = Len(updates) - Cardinality(ExistingUpdates(updates))
        /\ Len(r.processedKeys) = Cardinality(ExistingUpdates(updates))
        /\ Range(r.processedKeys)
             = {updates[i].key : i \in ExistingUpdates(updates)}
        /\ UpdatesApplied(r.store, updates, by)

\* the service's report with processedKeys left out
ServiceBulkUpdateCounts ==
    \A updates \in BulkUpdateInputs, by \in Updaters :
        LET r == Service_bulk_update_value_sets(store, updates, by) IN
        /\ r.successful = Cardinality(ExistingUpdates(updates))
        /\ r.failed = Len(updates) - Cardinality(ExistingUpdates(updates))
        /\ UpdatesApplied(r.store, updates, by)

\* C28: the response of the service's BulkAddItems counts items: when the
\* batch of N items passes validation and is appended, successful = N and
\* failed = 0; when validation rejects the batch, successful = 0 and
\* failed = N
BulkAddCountsItems ==
    \A key \in Keys, items \in Batches \ {<<>>}, by \in Updaters :
        LET r == Service_bulk_add_items(store, key, items, by) IN
        IF r.outcome = "ok"
        THEN /\ ItemsAt(r.store, key) = ItemsAt(store, key) \o items
             /\ r.successful = Len(items)
             /\ r.failed = 0
        ELSE /\ r.store = store
             /\ r.successful = 0
             /\ r.failed = Len(items)

\* the counts of a rejected batch, and of an appended batch of one item
BulkAddCountsOneItem ==
    \A key \in Keys, items \in Batches \ {<<>>}, by \in Updaters :
        LET r == Service_bulk_add_items(store, key, items, by) IN
        IF r.outcome = "ok"
        THEN /\ ItemsAt(r.store, key) = ItemsAt(store, key) \o items
             /\ r.successful = 1
             /\ r.failed = Len(items) - 1
        ELSE /\ r.store = store
             /\ r.successful = 0
             /\ r.failed = Len(items)

\* C29: RemoveItem with a code that no item of the stored value set carries
\* does not fail and leaves the items as they were, same items in the same
\* order, and every other value set untouched
RemoveAbsentCodeKeepsItems ==
    \A key \in Keys, code \in Codes, by \in Updaters :
        LET r == Library_remove_item_from_value_set(store, key, code, by) IN
        FindOne(store, key) # 0 /\ ~CodePresent(store, key, code) =>
            /\ r.outcome = "ok"
            /\ Len(r.store) = Len(store)
            /\ ItemsAt(r.store, key) = ItemsAt(store, key)
            /\ \A i \in 1..Len(store) :
                  store[i].key # key => r.store[i] = store[i]

\* a RemoveItem has answered ok on a store whose value sets all hold the
\* most items a value set can hold: removing a stored code would have left
\* fewer, so the code it named was absent
RemovedAbsentCode ==
    /\ response.op = "Library.remove_item_from_value_set"
    /\ response.outcome = "ok"
    /\ store # <<>>
    /\ \A i \in 1..Len(store) : Len(store[i].items) = ItemLimit + 1
    /\ \E code \in Codes : \A i \in 1..Len(store) :
          ~CodePresent(store, store[i].key, code)

\* the item with newCode is where the first oldCode item was and every
\* other item is where it was
PositionKept(before, after, old, new) ==
    /\ Len(after) = Len(before)
    /\ after[FirstPos(before, old)].code = new
    /\ \A j \in 1..Len(before) :
          j # FirstPos(before, old) => after[j] = before[j]

\* the library's ReplaceItemCode keeps the position
LibraryReplaceKeepsPosition ==
    \A key \in Keys, old \in Codes, new \in Codes, by \in Updaters :
        LET r == Library_replace_item_code(store, key, old, new, <<>>, by) IN
        r.outcome = "ok" =>
            PositionKept(ItemsAt(store, key), ItemsAt(r.store, key), old, new)

\* C26: after a successful ReplaceItemCode the item that carries newCode is
\* at the index the oldCode item had and every other item keeps its index
ReplaceKeepsPosition ==
    /\ LibraryReplaceKeepsPosition
    /\ \A key \in Keys, old \in Codes, new \in Codes, by \in Updaters :
        LET r == Service_replace_value_in_item(store, key, old, new, <<>>, by)
        IN  r.outcome = "ok" =>
                PositionKept(ItemsAt(store, key), ItemsAt(r.store, key),
                             old, new)

\* the service's ReplaceItemCode leaves the items without oldCode in their
\* order and puts the item with newCode behind them
ServiceReplaceMovesToEnd ==
    \A key \in Keys, old \in Codes, new \in Codes, by \in Updaters :
        LET r == Service_replace_value_in_item(store, key, old, new, <<>>, by)
            before == ItemsAt(store, key)
            after == ItemsAt(r.store, key)
        IN  r.outcome = "ok" =>
                /\ SubSeq(after, 1, Len(after) - 1)
                     = SelectSeq(before, LAMBDA it : it.code # old)
                /\ after[Len(after)].code = new

====
